---- MODULE Spec2Model ----
(***************************************************************************)
(* Model of the dialog customizer of coda-formula-custom: the DOM          *)
(* reconciliation and layout-patching engine (DOMSelector, LayoutManager,  *)
(* DialogProcessor, ModalCustomizer of src/src/config/defaults.js).        *)
(*                                                                         *)
(* A dialog is modelled as a small DOM tree: the Target Container T, its   *)
(* direct children (the editor region E, intermediate panels B(i), the     *)
(* documentation panel DOC), two descendants of the documentation panel    *)
(* (DESC carries a host max-height, LIST is the ancestor of the result     *)
(* list items) and the flex wrappers W(j) that the engine creates.  The    *)
(* host elements are block elements without inline styles of their own.    *)
(* ROOT is the root div of the dialog: the Target Container and the editor *)
(* region are found below it, or are not found.                            *)
(*                                                                         *)
(* Spec is the content script (ModalCustomizer on the document); StoreSpec *)
(* is the StorageManager over chrome.storage.local.                        *)
(***************************************************************************)
EXTENDS Integers, Sequences, FiniteSets, TLC

\* ------------------------------------------------------------------ bounds
MaxKids == 3
MaxWrappers == 2
MaxObservers == 2

\* ------------------------------------------------------------- node names
T == 0
E == 1
DOC == 2
DESC == 3
LIST == 4
ROOT == 5
NoNode == 99

B(i) == 10 + i
W(j) == 20 + j

\* the dialogs of the document: one open formula dialog
Dialogs == {1}
Intermediates == {B(i) : i \in 1..(MaxKids - 2)}
Wrappers == {W(j) : j \in 1..MaxWrappers}
Nodes == {ROOT, T, E, DOC, DESC, LIST} \cup Intermediates \cup Wrappers

\* ---------------------------------------------------------- configuration
Positions == {"left", "right", "top", "bottom", "none"}
EditorProportions == {30, 70}

\* a key that the object does not have (undefined in the source)
Undefined == -1

\* editorLineHeight is held in tenths (15 for 1.5); the presets table is left out
DEFAULT_CONFIG ==
  [modalWidth |-> 95, modalHeight |-> 95, modalLeft |-> 50, modalTop |-> 50,
   transparentBackground |-> FALSE,
   showDocumentation |-> TRUE, documentationPosition |-> "right",
   editorProportion |-> 66, documentationProportion |-> 34,
   editorFontSize |-> 14, editorLineHeight |-> 15,
   editorFontFamily |-> "monospace", editorTheme |-> "light",
   showIndentGuides |-> TRUE, indentGuideStyle |-> "dotted",
   highlightActiveIndent |-> TRUE]

\* "x < n" and "x > n" of the source: false when x is undefined
Below(x, n) == x # Undefined /\ x < n

Above(x, n) == x # Undefined /\ x > n

\* truthiness of a number and of a string
Truthy(x) == x # Undefined /\ x # 0

TruthyStr(x) == x # ""

validateConfig(c) ==
  /\ ~(Below(c.modalWidth, 20) \/ Above(c.modalWidth, 98))
  /\ ~(Below(c.modalHeight, 20) \/ Above(c.modalHeight, 98))
  /\ ~(Below(c.modalLeft, 0) \/ Above(c.modalLeft, 100))
  /\ ~(Below(c.modalTop, 0) \/ Above(c.modalTop, 100))
  /\ c.documentationPosition \in Positions
  /\ ~(Below(c.editorProportion, 30) \/ Above(c.editorProportion, 80))
  /\ ~(Truthy(c.editorFontSize) /\ (c.editorFontSize < 10 \/ c.editorFontSize > 24))
  /\ ~(Truthy(c.editorLineHeight) /\ (c.editorLineHeight < 10 \/ c.editorLineHeight > 25))
  /\ ~(TruthyStr(c.editorFontFamily) /\ c.editorFontFamily \notin
         {"monospace", "fira-code", "jetbrains-mono", "source-code-pro", "opendyslexic"})
  /\ ~(TruthyStr(c.editorTheme) /\ c.editorTheme \notin
         {"light", "dark", "sepia", "high-contrast", "protanopia", "deuteranopia",
          "tritanopia"})
  /\ ~(TruthyStr(c.indentGuideStyle) /\ c.indentGuideStyle \notin
         {"solid", "dotted", "dashed"})

NumericKeys ==
  {"modalWidth", "modalHeight", "modalLeft", "modalTop", "editorProportion",
   "documentationProportion", "editorFontSize", "editorLineHeight"}

\* DEFAULT_CONFIG spread first, then the keys userConfig has
spread(userConfig) ==
  [f \in DOMAIN userConfig |->
     IF f \in NumericKeys /\ userConfig[f] = Undefined THEN DEFAULT_CONFIG[f]
     ELSE userConfig[f]]

\* a merge that keeps the documentationProportion of userConfig
mergeConfigKeepsDocumentation(userConfig) == spread(userConfig)

mergeConfig(userConfig) ==
  [spread(userConfig) EXCEPT !.documentationProportion =
     100 - (IF Truthy(userConfig.editorProportion) THEN userConfig.editorProportion
            ELSE DEFAULT_CONFIG.editorProportion)]

Configs ==
  {mergeConfig([DEFAULT_CONFIG EXCEPT !.showDocumentation = s,
                                      !.documentationPosition = p,
                                      !.editorProportion = e]) :
     s \in BOOLEAN, p \in Positions, e \in EditorProportions}

\* ------------------------------------------------------------ DOM helpers
Range(s) == {s[i] : i \in DOMAIN s}

Remove(s, n) == SelectSeq(s, LAMBDA x : x # n)

IndexOf(s, n) == CHOOSE i \in DOMAIN s : s[i] = n

Parent(k, n) ==
  IF \E p \in DOMAIN k : n \in Range(k[p])
  THEN CHOOSE p \in DOMAIN k : n \in Range(k[p])
  ELSE NoNode

Detach(k, n) == [p \in DOMAIN k |-> Remove(k[p], n)]

AppendChild(k, p, n) ==
  LET k1 == Detach(k, n) IN [k1 EXCEPT ![p] = Append(@, n)]

InsertBefore(k, p, new, ref) ==
  LET k1 == Detach(k, new)
      i == IndexOf(k1[p], ref)
  IN [k1 EXCEPT ![p] = SubSeq(@, 1, i - 1) \o <<new>> \o SubSeq(@, i, Len(@))]

RECURSIVE Descendants(_, _)
Descendants(k, n) ==
  LET c == Range(k[n]) IN c \cup UNION {Descendants(k, x) : x \in c}

\* ------------------------------------------------------------------ styles
BorderColor == "1px solid rgb(240, 240, 240)"

EmptyStyle ==
  [display |-> "", flex |-> <<>>, overflow |-> "", height |-> "", width |-> "",
   borderLeft |-> "", borderRight |-> "", borderTop |-> "", borderBottom |-> "",
   flexDirection |-> "", maxHeight |-> "",
   \* the display the host style sheet gives the element ("" for none)
   sheetDisplay |-> ""]

EmptyRootStyle ==
  [width |-> <<>>, height |-> <<>>, maxWidth |-> <<>>, maxHeight |-> <<>>,
   position |-> "", left |-> <<>>, top |-> <<>>, transform |-> <<>>]

\* the children the host page gives a Target Container with n children
OrigKids(n) ==
  IF n = 1 THEN <<E>>
  ELSE <<E>> \o [i \in 1..(n - 2) |-> B(i)] \o <<DOC>>

\* a dialog as the host page renders it, before the engine has touched it
HostDialog(n) ==
  [nKids |-> n,
   kids |-> [x \in Nodes |-> IF x = ROOT THEN <<T>>
                             ELSE IF x = T THEN OrigKids(n)
                             ELSE IF x = DOC THEN <<DESC, LIST>> ELSE <<>>],
   style |-> [x \in Nodes |-> EmptyStyle],
   targetMarker |-> FALSE,
   layoutPatched |-> FALSE,
   rootStyle |-> EmptyRootStyle,
   background |-> "",
   settingsBtn |-> FALSE,
   editorStyled |-> FALSE,
   sideObservers |-> [x \in Nodes |-> 0]]

\* a dialog of the host page without an editor region: the structural selector
\* finds a container with two panels
HostDialogNoEditor ==
  [HostDialog(2) EXCEPT !.kids[T] = <<B(1), DOC>>]

\* a dialog with an editor region in which the Locator finds no Target Container
HostDialogNoTarget ==
  [HostDialog(1) EXCEPT !.nKids = 0, !.kids[ROOT] = <<E>>, !.kids[T] = <<>>]

HostDialogs ==
  {HostDialog(n) : n \in 1..MaxKids} \cup {HostDialogNoEditor, HostDialogNoTarget}

\* a dialog whose editor region lies inside the first child of the Target
\* Container
HostDialogEditorInFirst ==
  [HostDialog(2) EXCEPT !.kids[T] = <<B(1), DOC>>, !.kids[B(1)] = <<E>>]

\* a dialog whose editor region lies inside the last child of the Target
\* Container
HostDialogEditorInLast ==
  [HostDialog(2) EXCEPT !.kids[T] = <<DOC, B(1)>>, !.kids[B(1)] = <<E>>]

\* a dialog whose documentation panel is a flex container of the host page
HostDialogFlexPanel ==
  [HostDialog(2) EXCEPT !.style[DOC].sheetDisplay = "flex"]

\* -------------------------------------------------------------- Locator
\* findFormulaEditor: the editor region of the dialog, NoNode when absent
findFormulaEditor(dd) == IF E \in Descendants(dd.kids, ROOT) THEN E ELSE NoNode

\* the element findTargetContainer returns, NoNode for null
targetOf(dd) == IF T \in Descendants(dd.kids, ROOT) THEN T ELSE NoNode

\* findTargetContainer: by the marker attribute first, else by the structural
\* selector, which marks what it finds
findTargetContainer(dd) ==
  IF targetOf(dd) = NoNode THEN dd ELSE [dd EXCEPT !.targetMarker = TRUE]

\* ------------------------------------------------------- ModalSizeManager
applySize(rs, config) ==
  [rs EXCEPT !.width = <<config.modalWidth>>,
             !.height = <<config.modalHeight>>,
             !.maxWidth = <<config.modalWidth>>,
             !.maxHeight = <<config.modalHeight>>,
             !.position = "absolute",
             !.left = <<config.modalLeft>>,
             !.top = <<config.modalTop>>,
             !.transform = <<config.modalLeft, config.modalTop>>]

\* ------------------------------------------------------------ StyleManager
\* resetStyles without the four border sides
resetStylesKeepsBorders(s) ==
  [s EXCEPT !.display = "", !.flex = <<>>, !.overflow = "", !.flexDirection = "",
            !.height = "", !.width = "", !.maxHeight = ""]

resetStyles(s) ==
  [s EXCEPT !.display = "", !.flex = <<>>, !.overflow = "",
            !.borderLeft = "", !.borderRight = "", !.borderTop = "",
            !.borderBottom = "", !.flexDirection = "", !.height = "",
            !.width = "", !.maxHeight = ""]

\* ------------------------------------------------------------ LayoutManager
\* the child is the formula editor or contains it
isFormulaEditor(k, child) == child = E \/ E \in Descendants(k, child)

RECURSIVE hideDocumentationFrom(_, _, _, _)
hideDocumentationFrom(k, st, kids, i) ==
  IF i > Len(kids) THEN st
  ELSE hideDocumentationFrom(k,
         IF isFormulaEditor(k, kids[i]) THEN st
         ELSE [st EXCEPT ![kids[i]].display = "none"],
         kids, i + 1)

\* hiding by position: every child but the first
hideDocumentationByIndex(dd, kids) ==
  [dd EXCEPT !.style = [n \in Nodes |->
     IF \E i \in 2..Len(kids) : kids[i] = n
     THEN [dd.style[n] EXCEPT !.display = "none"] ELSE dd.style[n]]]

hideDocumentation(dd, kids) ==
  [dd EXCEPT !.style = hideDocumentationFrom(dd.kids, dd.style, kids, 1)]

\* the loop "for (let i = 1; i < kids.length - 1; i++)" of createFlexWrapper,
\* with the sequence indexed from 1
RECURSIVE hideIntermediate(_, _, _)
hideIntermediate(st, kids, i) ==
  IF i > Len(kids) - 1 THEN st
  ELSE hideIntermediate([st EXCEPT ![kids[i]].display = "none"], kids, i + 1)

wrapperDirection(position) ==
  IF position = "left" \/ position = "right" THEN "row" ELSE "column"

\* TRUE when the branch taken appends sideChild before mainChild
sideFirst(position) ==
  IF position = "left" \/ position = "right"
  THEN position = "left"
  ELSE position = "top"

\* the two border assignments of the branch taken, on the side child's style
sideBorders(s, position) ==
  IF position = "left" \/ position = "right"
  THEN IF position = "left"
       THEN [s EXCEPT !.borderRight = BorderColor, !.borderLeft = "none"]
       ELSE [s EXCEPT !.borderLeft = BorderColor, !.borderRight = "none"]
  ELSE IF position = "top"
       THEN [s EXCEPT !.borderBottom = BorderColor, !.borderTop = "none"]
       ELSE [s EXCEPT !.borderTop = BorderColor, !.borderBottom = "none"]

flexOf(proportion) == <<proportion, 1, 0>>

\* document.createElement: the first wrapper element not in the document
IsAttached(k, n) == n \in Descendants(k, ROOT)

\* the wrapper elements that are not in the document
freeWrappers(dd) == Wrappers \ Descendants(dd.kids, ROOT)

HasFreeWrapper(dd) == freeWrappers(dd) # {}

newWrapper(dd) ==
  LET free == freeWrappers(dd)
  IN CHOOSE w \in free : \A v \in free : w <= v

\* appendChild throws a HierarchyRequestError when the new child contains the
\* parent: the side child is put into a wrapper that sits below it
appendThrows(k, mainChild, sideChild) ==
  sideChild # mainChild /\ mainChild \in Descendants(k, sideChild)

createFlexWrapper(dd, kids, mainChild, sideChild, config) ==
  LET position == config.documentationPosition
      flexWrapper == newWrapper(dd)
      st1 == IF Len(kids) > 2 THEN hideIntermediate(dd.style, kids, 2) ELSE dd.style
      st2 == [st1 EXCEPT ![sideChild].display = "", ![sideChild].height = "100%"]
      st3 == [st2 EXCEPT ![flexWrapper] =
                [EmptyStyle EXCEPT !.display = "flex", !.width = "100%",
                                   !.height = "100%",
                                   !.flexDirection = wrapperDirection(position)]]
      st4 == [st3 EXCEPT ![sideChild] = sideBorders(@, position)]
      k0 == [dd.kids EXCEPT ![flexWrapper] = <<>>]
      k1 == InsertBefore(k0, Parent(k0, mainChild), flexWrapper, mainChild)
      k2 == IF sideFirst(position)
            THEN AppendChild(AppendChild(k1, flexWrapper, sideChild), flexWrapper, mainChild)
            ELSE AppendChild(AppendChild(k1, flexWrapper, mainChild), flexWrapper, sideChild)
      st5 == [st4 EXCEPT ![mainChild].flex = flexOf(config.editorProportion)]
      \* "undefined 1 0" is not a flex value: the assignment is ignored
      st6 == [st5 EXCEPT ![sideChild].flex =
                           IF config.documentationProportion = Undefined THEN @
                           ELSE flexOf(config.documentationProportion),
                         ![sideChild].overflow = "auto"]
  IN IF appendThrows(dd.kids, mainChild, sideChild)
     THEN \* the statements up to the appendChild that throws
          [dd EXCEPT !.kids = IF sideFirst(position) THEN k1
                              ELSE AppendChild(k1, flexWrapper, mainChild),
                     !.style = st4]
     ELSE [dd EXCEPT !.kids = k2, !.style = st6]

\* the host style sheet gives DESC a max-height; an inline max-height overrides it
computedMaxHeight(st, el) ==
  IF st[el].maxHeight # "" THEN st[el].maxHeight
  ELSE IF el = DESC THEN "200px" ELSE "none"

adjustSideChildLayout(dd, sideRoot) ==
  LET under == Descendants(dd.kids, sideRoot)
  IN [dd EXCEPT !.style =
        [n \in Nodes |->
           IF n \in under
           THEN [dd.style[n] EXCEPT
                   !.maxHeight = IF computedMaxHeight(dd.style, n) # "none"
                                 THEN "none" ELSE @,
                   !.height = IF n = LIST THEN "100%" ELSE @]
           ELSE dd.style[n]]]

\* a new MutationObserver on the side child; the count saturates at MaxObservers
observeSideChild(dd, sideChild) ==
  [dd EXCEPT !.sideObservers[sideChild] =
     IF @ < MaxObservers THEN @ + 1 ELSE MaxObservers]

showDocumentation(dd, kids, formulaDiv, config) ==
  IF Len(kids) < 2 THEN dd
  ELSE LET mainChild == formulaDiv
           sideChild == kids[Len(kids)]
       IN IF appendThrows(dd.kids, mainChild, sideChild)
          THEN createFlexWrapper(dd, kids, mainChild, sideChild, config)
          ELSE \* createFlexWrapper, adjustSideChildLayout, observeSideChild,
               \* each on the dialog the step before has left
               CHOOSE observed \in
                 {observeSideChild(adjusted, sideChild) :
                    adjusted \in
                      {adjustSideChildLayout(wrapped, sideChild) :
                         wrapped \in
                           {createFlexWrapper(dd, kids, mainChild, sideChild, config)}}} :
                 TRUE

applyLayout(dd, kids, formulaDiv, config) ==
  IF Len(kids) < 2 THEN dd
  ELSE IF ~config.showDocumentation THEN hideDocumentation(dd, kids)
  ELSE showDocumentation(dd, kids, formulaDiv, config)

\* getComputedStyle(div).display / .flexDirection of an element of the dialog
computedDisplay(s) ==
  IF s.display # "" THEN s.display
  ELSE IF s.sheetDisplay # "" THEN s.sheetDisplay ELSE "block"

computedFlexDirection(s) == IF s.flexDirection # "" THEN s.flexDirection ELSE "row"

\* a fingerprint that knows the row direction only
isFlexWrapperRowOnly(k, st, div) ==
  st[div].display = "flex" /\ st[div].flexDirection = "row" /\ Len(k[div]) > 0

\* the fingerprint by which resetLayout recognises a wrapper
isFlexWrapper(k, st, div) ==
  LET hasFlexDisplay == st[div].display = "flex" \/ computedDisplay(st[div]) = "flex"
      hasFlexDirection == \/ st[div].flexDirection = "row"
                          \/ st[div].flexDirection = "column"
                          \/ computedFlexDirection(st[div]) = "row"
                          \/ computedFlexDirection(st[div]) = "column"
  IN hasFlexDisplay /\ hasFlexDirection /\ Len(k[div]) > 0

\* "while (div.firstChild) target.appendChild(div.firstChild)"
RECURSIVE hoistChildren(_, _, _)
hoistChildren(k, target, div) ==
  IF k[div] = <<>> THEN k
  ELSE hoistChildren(AppendChild(k, target, Head(k[div])), target, div)

\* the forEach over the snapshot allDivs
RECURSIVE removeWrappers(_, _, _, _, _)
removeWrappers(k, st, target, allDivs, i) ==
  IF i > Len(allDivs) THEN k
  ELSE removeWrappers(
         IF isFlexWrapper(k, st, allDivs[i])
         THEN Detach(hoistChildren(k, target, allDivs[i]), allDivs[i])
         ELSE k,
         st, target, allDivs, i + 1)

resetLayout(dd, target) ==
  LET k1 == removeWrappers(dd.kids, dd.style, target, dd.kids[target], 1)
      kids == Range(k1[target])
      gone == Wrappers \ Descendants(k1, ROOT)
      st1 == [n \in Nodes |->
                IF n \in kids THEN resetStyles(dd.style[n])
                \* an element that left the document is garbage: its name is free again
                ELSE IF n \in gone THEN EmptyStyle
                ELSE dd.style[n]]
      st2 == [st1 EXCEPT ![target].display = "", ![target].flexDirection = "",
                         ![target].height = ""]
  IN [dd EXCEPT !.kids = k1, !.style = st2]

\* ---------------------------------------------------------- DialogProcessor
\* a processDialog without the layout marker check
processDialogUnguarded(dd, formulaDiv, config) ==
  LET d1 == [dd EXCEPT !.rootStyle = applySize(@, config),
                       !.background = IF config.transparentBackground
                                      THEN "transparent" ELSE "",
                       !.settingsBtn = TRUE,
                       !.editorStyled = TRUE]
      d2 == findTargetContainer(d1)
  IN IF targetOf(d1) = NoNode THEN d2
     ELSE CHOOSE laid \in
            {applyLayout(d3, d3.kids[T], formulaDiv, config) :
               d3 \in {[d2 EXCEPT !.layoutPatched = TRUE, !.style[T].height = "auto"]}} :
            TRUE

processDialog(dd, formulaDiv, config) ==
  LET d1 == [dd EXCEPT !.rootStyle = applySize(@, config),
                       !.background = IF config.transparentBackground
                                      THEN "transparent" ELSE "",
                       !.settingsBtn = TRUE,
                       !.editorStyled = TRUE]
      d2 == findTargetContainer(d1)
  IN IF targetOf(d1) = NoNode THEN d2
     ELSE IF d2.layoutPatched THEN d2
     ELSE CHOOSE laid \in
            {applyLayout(d3, d3.kids[T], formulaDiv, config) :
               d3 \in {[d2 EXCEPT !.layoutPatched = TRUE, !.style[T].height = "auto"]}} :
            TRUE

resetDialog(dd) ==
  LET d1 == [dd EXCEPT !.rootStyle = EmptyRootStyle, !.background = ""]
      d2 == findTargetContainer(d1)
  IN IF targetOf(d1) = NoNode THEN d2
     ELSE resetLayout([d2 EXCEPT !.layoutPatched = FALSE], T)

\* resetDialog when resetLayout throws at its first statement: the geometry
\* is reset and the layout marker deleted, the catch block logs the error
resetDialogCaught(dd) ==
  LET d1 == [dd EXCEPT !.rootStyle = EmptyRootStyle, !.background = ""]
      d2 == findTargetContainer(d1)
  IN IF targetOf(d1) = NoNode THEN d2
     ELSE [d2 EXCEPT !.layoutPatched = FALSE]


\* ------------------------------------------------------------------- state
VARIABLES
  config,           \* ModalCustomizer.config, the held configuration
  processedDialogs, \* ModalCustomizer.processedDialogs
  dom,              \* the dialogs of the document
  resetDom,         \* history: the dialogs as resetDialog left them in the last updateConfig
  appliedKids,      \* history: the kids list the last applyLayout of each dialog received
  resetFrom,        \* history: what the last updateConfig found when its reset began
  lastOp,           \* history: the last operation
  lastProcessed,    \* history: the dialogs the last operation handed to processDialog
  observer,         \* ModalCustomizer.observer: "null" or "connected"
  initDone,         \* ModalCustomizer.init has run
  store,            \* chrome.storage.local and the last call of the StorageManager
  thrown,           \* history: the dialogs whose reset threw in the last updateConfig
  customizer,       \* CodaFormulaCustomizer.customizer: "null" or "created"
  delivered,        \* history: the last notification the content script handled
  editor,           \* the editor element the StyleManager works on
  locator,          \* the root div the Locator was last asked about, and its answer
  panel,            \* the configuration SettingsPanel.handleSave is about to dispatch
  pending           \* the mutation records queued for the three kinds of observer

vars == <<config, processedDialogs, dom, resetDom, appliedKids, resetFrom, lastOp,
          lastProcessed, observer, initDone, store, thrown, customizer, delivered,
          editor, locator, panel, pending>>

\* the variables of the content script
pageVars == <<config, processedDialogs, dom, resetDom, appliedKids, resetFrom, lastOp,
              lastProcessed, observer, initDone>>

\* what the watcher and the store leave alone
\* no mutation record is queued for the body observer, the side-panel
\* observers or the indent observers; cause tells whether the host or the
\* engine made the write that queued the last record, hostMoves counts the
\* mutations of the host and the configuration changes
NoPending ==
  [body |-> FALSE, side |-> FALSE, indent |-> FALSE, cause |-> "none", hostMoves |-> 0]

otherVars == <<thrown, customizer, delivered, editor, locator, panel, pending>>

\* an empty store, before any call: stored is the value under STORAGE_KEY (<<>>
\* when absent), changed a pending storage.onChanged event, arg / result /
\* returned / notified the argument, the return value and the CONFIG_UPDATE
\* messages of the last call
EmptyStore ==
  [stored |-> <<>>, changed |-> FALSE, op |-> "none", arg |-> <<>>,
   result |-> <<>>, returned |-> <<>>, notified |-> <<>>]

\* ------------------------------------------- layout states of section 4.3
TargetWrappers(dd) == {w \in Wrappers : w \in Range(dd.kids[T])}

AttachedWrappers(dd) == {w \in Wrappers : IsAttached(dd.kids, w)}

\* WRAPPED: the Target Container holds a wrapper
HoldsWrapper(dd) == TargetWrappers(dd) # {}

\* HIDDEN: no wrapper, and every child but the editor region has display:none
IsHidden(dd) ==
  /\ AttachedWrappers(dd) = {}
  /\ \E n \in Range(dd.kids[T]) : n # E
  /\ \A n \in Range(dd.kids[T]) : n # E => dd.style[n].display = "none"

LayoutStateOf(dd) ==
  IF HoldsWrapper(dd) THEN "WRAPPED"
  ELSE IF IsHidden(dd) THEN "HIDDEN"
  ELSE IF AttachedWrappers(dd) = {} THEN "UNPATCHED"
  ELSE "OTHER"

\* findDialogs: every dialog of the document
findDialogs == DOMAIN dom

Init ==
  /\ config \in Configs
  /\ processedDialogs = {}
  /\ dom \in [Dialogs -> HostDialogs]
  /\ resetDom = dom
  /\ appliedKids = [d \in Dialogs |-> dom[d].kids[T]]
  /\ resetFrom = [d \in Dialogs |-> [state |-> "UNPATCHED", marker |-> FALSE]]
  /\ lastOp = "new"
  /\ lastProcessed = {}
  /\ observer = "null"
  /\ initDone = FALSE
  /\ store = EmptyStore
  /\ thrown = {}
  /\ customizer = "created"
  /\ delivered = <<>>
  /\ editor = <<>>
  /\ locator = <<>>
  /\ panel = <<>>
  /\ pending = NoPending

\* a scan without the processedDialogs.has check
toProcessAgain(domIn, processed) ==
  {d \in DOMAIN domIn : findFormulaEditor(domIn[d]) # NoNode}

\* the dialogs a scan over domIn hands to processDialog
toProcess(domIn, processed) ==
  {d \in DOMAIN domIn : d \notin processed /\ findFormulaEditor(domIn[d]) # NoNode}

\* processDialog on dd throws: createFlexWrapper runs into the appendChild of
\* an ancestor
processThrows(dd, cfg) ==
  /\ findFormulaEditor(dd) # NoNode
  /\ targetOf(dd) # NoNode
  /\ ~dd.layoutPatched
  /\ cfg.showDocumentation
  /\ Len(dd.kids[T]) >= 2
  /\ appendThrows(dd.kids, E, dd.kids[T][Len(dd.kids[T])])

\* the dialogs of todo that the forEach of processDialogs reaches: an
\* exception of processDialog ends the loop
reached(domIn, todo, cfg) ==
  {d \in todo : \A f \in todo : f < d => ~processThrows(domIn[f], cfg)}

\* the scan of ModalCustomizer.processDialogs over the document, as far as
\* the dialogs go
scanPage ==
  \E todo \in {reached(dom, toProcess(dom, processedDialogs), config)} :
     /\ \A d \in todo : HasFreeWrapper(dom[d])
     /\ processedDialogs' = processedDialogs \cup todo
     /\ dom' = [d \in findDialogs |->
                  IF d \in todo THEN processDialog(dom[d], findFormulaEditor(dom[d]), config)
                  ELSE dom[d]]
     /\ appliedKids' = [d \in findDialogs |->
                  IF d \in todo /\ ~dom[d].layoutPatched THEN dom[d].kids[T]
                  ELSE appliedKids[d]]
     /\ lastProcessed' = todo
     /\ UNCHANGED <<config, resetDom, resetFrom>>

\* the scan of ModalCustomizer.processDialogs over the document
scan ==
  /\ scanPage
  /\ UNCHANGED <<store, otherVars>>

\* ModalCustomizer.init: the first scan, then startObserver (listenForConfigChanges
\* is what makes updateConfig callable)
init ==
  /\ ~initDone
  /\ scan
  /\ observer' = IF \E d \in lastProcessed' : processThrows(dom[d], config)
                 THEN observer ELSE "connected"
  /\ initDone' = TRUE
  /\ lastOp' = "init"

\* a body observer callback that does not scan
processDialogsIdle ==
  /\ observer = "connected"
  /\ lastOp' = "processDialogs"
  /\ lastProcessed' = {}
  /\ UNCHANGED <<config, processedDialogs, dom, resetDom, appliedKids, resetFrom,
                 observer, initDone, store, otherVars>>

\* the callback of the body observer: ModalCustomizer.processDialogs
processDialogs ==
  /\ observer = "connected"
  /\ scan
  /\ lastOp' = "processDialogs"
  /\ UNCHANGED <<observer, initDone>>

\* a stopObserver that leaves the observer connected
stopObserverStaysConnected ==
  /\ observer = "connected"
  /\ observer' = observer
  /\ lastOp' = "stopObserver"
  /\ lastProcessed' = {}
  /\ UNCHANGED <<config, processedDialogs, dom, resetDom, appliedKids, resetFrom,
                 initDone, store, otherVars>>

\* ModalCustomizer.stopObserver
stopObserver ==
  /\ observer = "connected"
  /\ observer' = "null"
  /\ lastOp' = "stopObserver"
  /\ lastProcessed' = {}
  /\ UNCHANGED <<config, processedDialogs, dom, resetDom, appliedKids, resetFrom,
                 initDone, store, otherVars>>

\* the forEach of updateConfig over the dialogs of the document: resetDialog
\* on each one; failing are the dialogs in which resetLayout throws
resetAll(domIn, failing) ==
  [d \in DOMAIN domIn |->
     IF d \in failing THEN resetDialogCaught(domIn[d]) ELSE resetDialog(domIn[d])]

\* ModalCustomizer.updateConfig: reset every dialog, clear the processed set,
\* process every dialog with the new configuration
updateConfig(newConfig, failing) ==
  \E afterReset \in {resetAll(dom, failing)} :
  \E todo \in {reached(afterReset, toProcess(afterReset, {}), newConfig)} :
     /\ \A d \in todo : HasFreeWrapper(afterReset[d])
     /\ config' = newConfig
     /\ resetDom' = afterReset
     /\ resetFrom' = [d \in findDialogs |->
                       [state |-> LayoutStateOf(dom[d]), marker |-> dom[d].layoutPatched]]
     /\ processedDialogs' = todo
     /\ dom' = [d \in findDialogs |->
                  IF d \in todo
                  THEN processDialog(afterReset[d], findFormulaEditor(afterReset[d]), newConfig)
                  ELSE afterReset[d]]
     /\ appliedKids' = [d \in findDialogs |->
                  IF d \in todo /\ ~afterReset[d].layoutPatched THEN afterReset[d].kids[T]
                  ELSE appliedKids[d]]
     /\ lastOp' = "updateConfig"
     /\ lastProcessed' = todo
     /\ UNCHANGED <<observer, initDone>>

\* a configuration reaches the watcher (from the store subscription, a
\* CONFIG_UPDATE message or the settings panel) and no reset throws
configChanged(newConfig) ==
  /\ updateConfig(newConfig, {})
  /\ UNCHANGED <<store, otherVars>>

\* the host page drops the layout marker attribute of a Target Container
HostDropsLayoutMarker(d) ==
  /\ dom[d].layoutPatched
  /\ dom' = [dom EXCEPT ![d].layoutPatched = FALSE]
  /\ lastOp' = "host"
  /\ lastProcessed' = {}
  /\ UNCHANGED <<config, processedDialogs, resetDom, appliedKids, resetFrom,
                 observer, initDone, store, otherVars>>

Next ==
  \/ init
  \/ processDialogs
  \/ stopObserver
  \/ \E newConfig \in Configs : configChanged(newConfig)
  \/ \E d \in Dialogs : HostDropsLayoutMarker(d)

Spec == Init /\ [][Next]_vars

\* ------------------------------------------------------------ StorageManager
\* the configurations a caller hands to saveConfig
UserConfigs ==
  {[DEFAULT_CONFIG EXCEPT !.modalWidth = w, !.documentationPosition = p,
                          !.editorProportion = e, !.documentationProportion = dp,
                          !.editorTheme = t, !.editorFontSize = fs] :
     w \in {19, 95}, p \in {"right", "center"}, e \in {Undefined, 29, 30, 80},
     dp \in {Undefined, 50}, t \in {"light", "neon"}, fs \in {0, 9, 14}}

\* StorageManager.saveConfig(c); ok: chrome.storage.local.set resolves
saveConfig(c) ==
  /\ \E ok \in BOOLEAN :
       store' =
         IF validateConfig(c) /\ ok
         THEN [store EXCEPT !.stored = <<mergeConfig(c)>>, !.changed = TRUE,
                            !.op = "saveConfig", !.arg = <<c>>, !.result = <<TRUE>>,
                            !.returned = <<>>, !.notified = <<mergeConfig(c)>>]
         ELSE [store EXCEPT !.op = "saveConfig", !.arg = <<c>>, !.result = <<FALSE>>,
                            !.returned = <<>>, !.notified = <<>>]
  /\ UNCHANGED <<pageVars, otherVars>>

\* StorageManager.getConfig; ok: chrome.storage.local works during the call
getConfig ==
  /\ \E ok \in BOOLEAN :
       store' =
         IF ~ok
         THEN [store EXCEPT !.op = "getConfig", !.arg = <<>>, !.result = <<>>,
                            !.returned = <<DEFAULT_CONFIG>>, !.notified = <<>>]
         ELSE IF store.stored = <<>>
         THEN \* first time: saveConfig(DEFAULT_CONFIG), then the defaults
              [store EXCEPT !.stored = IF validateConfig(DEFAULT_CONFIG)
                                       THEN <<mergeConfig(DEFAULT_CONFIG)>> ELSE @,
                            !.changed = validateConfig(DEFAULT_CONFIG) \/ @,
                            !.op = "getConfig", !.arg = <<>>, !.result = <<>>,
                            !.returned = <<DEFAULT_CONFIG>>,
                            !.notified = IF validateConfig(DEFAULT_CONFIG)
                                         THEN <<mergeConfig(DEFAULT_CONFIG)>> ELSE <<>>]
         ELSE [store EXCEPT !.op = "getConfig", !.arg = <<>>, !.result = <<>>,
                            !.returned = <<mergeConfig(store.stored[1])>>,
                            !.notified = <<>>]
  /\ UNCHANGED <<pageVars, otherVars>>

\* the listener StorageManager.onConfigChange registers, on a storage change
onConfigChange ==
  /\ store.changed
  /\ store' = [store EXCEPT !.changed = FALSE, !.op = "onConfigChange",
                            !.arg = <<>>, !.result = <<>>,
                            !.returned = <<mergeConfig(store.stored[1])>>,
                            !.notified = <<>>]
  /\ UNCHANGED <<pageVars, otherVars>>

\* the store before the content script has done anything: one untouched dialog
StoreInit ==
  /\ config = mergeConfig(DEFAULT_CONFIG)
  /\ processedDialogs = {}
  /\ dom = [d \in Dialogs |-> HostDialog(2)]
  /\ resetDom = dom
  /\ appliedKids = [d \in Dialogs |-> dom[d].kids[T]]
  /\ resetFrom = [d \in Dialogs |-> [state |-> "UNPATCHED", marker |-> FALSE]]
  /\ lastOp = "new"
  /\ lastProcessed = {}
  /\ observer = "null"
  /\ initDone = FALSE
  /\ store = EmptyStore
  /\ thrown = {}
  /\ customizer = "created"
  /\ delivered = <<>>
  /\ editor = <<>>
  /\ locator = <<>>
  /\ panel = <<>>
  /\ pending = NoPending

StoreNext ==
  \/ \E c \in UserConfigs : saveConfig(c)
  \/ getConfig
  \/ onConfigChange

StoreSpec == StoreInit /\ [][StoreNext]_vars


\* ------------------------------------------------------- claims C1 .. C10
LayoutPositions == {"left", "right", "top", "bottom"}

ShowsLayout(c) == c.showDocumentation /\ c.documentationPosition \in LayoutPositions

\* the dialogs whose Target Container had two or more children and that the
\* engine has processed with the held configuration
Laid == {d \in processedDialogs : dom[d].nKids >= 2}

\* the intermediate panels of a dialog
PanelsOf(dd) == {B(i) : i \in 1..(dd.nKids - 2)}

\* WRAPPED as section 4.3 defines it: a wrapper in the Target Container that
\* holds exactly the editor region and the documentation panel
IsWrapped(dd) ==
  \E w \in TargetWrappers(dd) : Len(dd.kids[w]) = 2 /\ Range(dd.kids[w]) = {E, DOC}

\* C1: round trip of the child list. When updateConfig resets a dialog whose
\* layout was applied (showDocumentation, one of the four positions) to a
\* Target Container with 2 or more children, the editor region first and the
\* documentation panel last, the reset leaves the Target Container with the
\* children it had before the layout was applied, in the same order.
C1_RoundTripChildList ==
  [][\A d \in Dialogs :
       (/\ lastOp' = "updateConfig"
        /\ d \in processedDialogs
        /\ ShowsLayout(config)
        /\ Len(appliedKids[d]) >= 2
        /\ appliedKids[d][1] = E
        /\ appliedKids[d][Len(appliedKids[d])] = DOC)
       => resetDom'[d].kids[T] = appliedKids[d]]_vars

\* the layout state C2 compares: the wrappers with their children and direction,
\* the flex factors of main and side, the border edges of the side child
LayoutView(dd) ==
  [wrappers |-> {<<dd.kids[w], dd.style[w].flexDirection>> : w \in AttachedWrappers(dd)},
   mainFlex |-> dd.style[E].flex,
   sideFlex |-> dd.style[DOC].flex,
   sideBorder |-> <<dd.style[DOC].borderLeft, dd.style[DOC].borderRight,
                    dd.style[DOC].borderTop, dd.style[DOC].borderBottom>>]

\* C2: idempotence under reset and reapply. A second updateConfig with the
\* configuration the first one installed (showDocumentation, one of the four
\* positions) leaves every dialog in the layout state the first one produced.
C2_UpdateConfigTwice ==
  [][(/\ lastOp = "updateConfig"
      /\ lastOp' = "updateConfig"
      /\ config' = config
      /\ ShowsLayout(config))
     => \A d \in Dialogs : LayoutView(dom'[d]) = LayoutView(dom[d])]_vars

\* C3: WRAPPED-state invariant. While the held configuration shows the
\* documentation at one of the four positions, every processed Target Container
\* that had 2 or more children holds a wrapper whose children are exactly the
\* editor region and the documentation panel, and every intermediate panel has
\* display:none.
C3_WrappedInvariant ==
  ShowsLayout(config) =>
    \A d \in Laid :
      /\ IsWrapped(dom[d])
      /\ \A b \in PanelsOf(dom[d]) : dom[d].style[b].display = "none"

\* C4: no orphaned wrapper. When updateConfig resets a dialog whose Target
\* Container holds a wrapper, with or without the layout marker, the reset
\* leaves no wrapper anywhere in the dialog, and the former children of each
\* wrapper are direct children of the Target Container.
C4_NoOrphanedWrapper ==
  [][\A d \in Dialogs :
       (lastOp' = "updateConfig" /\ HoldsWrapper(dom[d]))
       => /\ AttachedWrappers(resetDom'[d]) = {}
          /\ \A w \in TargetWrappers(dom[d]) :
               Range(dom[d].kids[w]) \subseteq Range(resetDom'[d].kids[T])]_vars

\* a reset that began on a wrapper-holding Target Container whose layout marker
\* was gone, after an earlier layout cycle
C4_Witness ==
  \E d \in Dialogs :
    /\ lastOp = "updateConfig"
    /\ resetFrom[d].state = "WRAPPED"
    /\ ~resetFrom[d].marker
    /\ AttachedWrappers(resetDom[d]) = {}
    /\ resetDom[d].kids[T] # OrigKids(dom[d].nKids)

\* what the engine writes inside a dialog: inline styles and marker attributes
EngineWrites(dd) ==
  [style |-> [n \in Nodes \ Wrappers |-> dd.style[n]],
   rootStyle |-> dd.rootStyle,
   targetMarker |-> dd.targetMarker,
   layoutPatched |-> dd.layoutPatched]

\* C5: no residual engine writes. When updateConfig resets a processed dialog
\* whose Target Container is WRAPPED, every inline style and marker attribute the
\* engine wrote in the dialog is back to the value the host page gave it.
C5_NoResidualWrites ==
  [][\A d \in Dialogs :
       (lastOp' = "updateConfig" /\ d \in processedDialogs /\ IsWrapped(dom[d]))
       => EngineWrites(resetDom'[d]) = EngineWrites(HostDialog(dom[d].nKids))]_vars

\* C6: idempotent reprocessing. A scan over a dialog that is already processed
\* and whose Target Container is WRAPPED leaves the dialog as it is and hands it
\* to no processDialog, so no wrapper is created, no child moves and no style
\* element is injected.
C6_IdempotentScan ==
  [][\A d \in Dialogs :
       (lastOp' = "processDialogs" /\ d \in processedDialogs /\ IsWrapped(dom[d]))
       => dom'[d] = dom[d] /\ d \notin lastProcessed']_vars

\* a scan that found a processed, WRAPPED dialog and processed nothing
C6_Witness ==
  \E d \in Dialogs :
    /\ lastOp = "processDialogs"
    /\ lastProcessed = {}
    /\ d \in processedDialogs
    /\ IsWrapped(dom[d])

\* C7: hide/show toggle. For a Target Container with children [A, B, C]:
\* updateConfig with showDocumentation=false leaves A visible and B, C with
\* display:none; a following updateConfig with showDocumentation=true and
\* position right yields a wrapper with children [A, C], B still a child of the
\* Target Container with display:none.
C7_HideShowToggle ==
  [][\A d \in Dialogs :
       dom[d].nKids = 3 =>
         /\ (lastOp' = "updateConfig" /\ ~config'.showDocumentation)
            => /\ dom'[d].style[E].display # "none"
               /\ dom'[d].style[B(1)].display = "none"
               /\ dom'[d].style[DOC].display = "none"
         /\ (/\ lastOp = "updateConfig"
             /\ ~config.showDocumentation
             /\ lastOp' = "updateConfig"
             /\ config'.showDocumentation
             /\ config'.documentationPosition = "right")
            => /\ \E w \in TargetWrappers(dom'[d]) : dom'[d].kids[w] = <<E, DOC>>
               /\ B(1) \in Range(dom'[d].kids[T])
               /\ dom'[d].style[B(1)].display = "none"]_vars

\* C8: orientation and child order. Whenever the layout has been applied with
\* showDocumentation=true, the wrapper's flex-direction is row for left and
\* right and column for top and bottom, and its children are [side, main] for
\* left and top and [main, side] for right and bottom.
C8_OrientationAndOrder ==
  ShowsLayout(config) =>
    \A d \in Laid :
      \E w \in AttachedWrappers(dom[d]) :
        /\ dom[d].style[w].flexDirection =
             (IF config.documentationPosition \in {"left", "right"} THEN "row" ELSE "column")
        /\ dom[d].kids[w] =
             (IF config.documentationPosition \in {"left", "top"}
              THEN <<DOC, E>> ELSE <<E, DOC>>)

\* the edges of an element that carry a border
BorderEdges(s) ==
  {e \in {"borderLeft", "borderRight", "borderTop", "borderBottom"} : s[e] \notin {"", "none"}}

AdjacentEdge(position) ==
  CASE position = "left" -> "borderRight"
    [] position = "right" -> "borderLeft"
    [] position = "top" -> "borderBottom"
    [] position = "bottom" -> "borderTop"

\* the side child the engine chose: the last of the kids applyLayout received
SideChildOf(d) == appliedKids[d][Len(appliedKids[d])]

\* C9: single separator border. Whenever the layout has been applied, the side
\* child has a border on exactly one edge, the edge adjacent to the main child
\* (left: right edge, right: left edge, top: bottom edge, bottom: top edge), and
\* in every WRAPPED state that side child is the documentation panel.
C9_SingleSeparatorBorder ==
  ShowsLayout(config) =>
    \A d \in Laid :
      /\ BorderEdges(dom[d].style[SideChildOf(d)]) = {AdjacentEdge(config.documentationPosition)}
      /\ IsWrapped(dom[d]) => SideChildOf(d) = DOC

\* a WRAPPED state of a three-child container that replaced a WRAPPED state at
\* another axis: the documentation panel carries the one border of the new position
C9_Witness ==
  \E d \in Laid :
    /\ ShowsLayout(config)
    /\ IsWrapped(dom[d])
    /\ dom[d].nKids = 3
    /\ lastOp = "updateConfig"
    /\ resetFrom[d].state = "WRAPPED"
    /\ config.documentationPosition = "top"
    /\ BorderEdges(dom[d].style[DOC]) = {"borderBottom"}

\* C10: flex proportions. Whenever the layout has been applied with
\* showDocumentation=true, the main child's flex is editorProportion 1 0 and the
\* side child's flex is documentationProportion 1 0.
C10_FlexProportions ==
  ShowsLayout(config) =>
    \A d \in Laid :
      /\ dom[d].style[E].flex = <<config.editorProportion, 1, 0>>
      /\ dom[d].style[DOC].flex = <<config.documentationProportion, 1, 0>>

\* ------------------------------------------------------ claims C12 .. C19
\* the dialog a processDialog of the last step received: the reset dialog in
\* updateConfig, the dialog of the document in a scan
Received(d) == IF lastOp' = "updateConfig" THEN resetDom'[d] ELSE dom[d]

\* the state of a Target Container: the tree below the root and every inline style
TargetState(dd) == [kids |-> dd.kids, style |-> dd.style]

\* C12: position none equals hidden. Processing a dialog with
\* documentationPosition = none and showDocumentation = true leaves the Target
\* Container in the state that processing it with showDocumentation = false
\* leaves it in: the other children display:none, no wrapper.
C12_PositionNoneIsHidden ==
  [][\A d \in lastProcessed' :
       (config'.showDocumentation /\ config'.documentationPosition = "none")
       => TargetState(dom'[d]) =
            TargetState(processDialog(Received(d), E,
                          [config' EXCEPT !.showDocumentation = FALSE]))]_vars

C14_MissingStructure ==
  \A d \in Dialogs :
    findFormulaEditor(dom[d]) = NoNode
    => d \notin processedDialogs /\ dom[d] = HostDialogNoEditor

\* C15: too few children. Processing a dialog whose Target Container has fewer
\* than 2 children creates no wrapper and changes no inline style of the Target
\* Container or of its children.
C15_TooFewChildren ==
  [][\A d \in lastProcessed' :
       (targetOf(Received(d)) # NoNode /\ Len(Received(d).kids[T]) < 2)
       => /\ AttachedWrappers(dom'[d]) = {}
          /\ dom'[d].style = Received(d).style]_vars

\* C16: absent Target Container. processDialog of a dialog in which the Locator
\* finds no Target Container changes nothing in the dialog.
C16_AbsentTargetNoOp ==
  [][\A d \in lastProcessed' :
       targetOf(Received(d)) = NoNode => dom'[d] = Received(d)]_vars

\* the dialog as the host page rendered it
hostOf(dd) ==
  IF findFormulaEditor(dd) = NoNode THEN HostDialogNoEditor
  ELSE IF targetOf(dd) = NoNode THEN HostDialogNoTarget
  ELSE HostDialog(dd.nKids)

\* geometry and layout of a dialog: the root geometry, the children of the
\* Target Container in order (a wrapper with its direction and children, a
\* child with its display), flex factors and border edges of main and side
GeometryAndLayout(dd) ==
  [rootStyle |-> dd.rootStyle,
   children |-> [i \in DOMAIN dd.kids[T] |->
                   LET n == dd.kids[T][i]
                   IN [wrapper |-> n \in Wrappers,
                       node |-> IF n \in Wrappers THEN NoNode ELSE n,
                       inner |-> IF n \in Wrappers THEN dd.kids[n] ELSE <<>>,
                       direction |-> dd.style[n].flexDirection,
                       display |-> dd.style[n].display]],
   view |-> LayoutView(dd)]

\* C17: reset all, then reprocess all. An updateConfig(newConfig) leaves every
\* dialog with an editor region in the processed set, with the geometry and the
\* layout that newConfig alone gives the dialog: those of processing the dialog
\* as the host rendered it.
C17_ResetAllThenReprocess ==
  [][lastOp' = "updateConfig" =>
       \A d \in Dialogs :
         findFormulaEditor(dom[d]) # NoNode
         => /\ d \in processedDialogs'
            /\ GeometryAndLayout(dom'[d]) =
                 GeometryAndLayout(processDialog(hostOf(dom[d]), E, config'))]_vars

\* C18: side-panel observer lifetime. In every state each element carries at
\* most one active side-panel observer, and no element of a dialog whose Target
\* Container is UNPATCHED or HIDDEN carries one.
C18_SideObserverLifetime ==
  \A d \in Dialogs : \A n \in Nodes :
    /\ dom[d].sideObservers[n] <= 1
    /\ LayoutStateOf(dom[d]) \in {"UNPATCHED", "HIDDEN"}
       => dom[d].sideObservers[n] = 0

\* C19: stop. stopObserver disconnects the body observer and leaves every
\* dialog and the processed set as they are; once the observer is disconnected
\* it stays disconnected and no scan runs from it.
C19_StopObserver ==
  [][/\ lastOp' = "stopObserver"
        => observer' = "null" /\ dom' = dom /\ processedDialogs' = processedDialogs
     /\ (initDone /\ observer = "null")
        => observer' = "null" /\ lastOp' # "processDialogs"]_vars

\* after stopObserver an updateConfig still lays out the dialog: a WRAPPED
\* dialog with the observer disconnected
C19_Witness ==
  \E d \in processedDialogs :
    /\ initDone
    /\ observer = "null"
    /\ lastOp = "updateConfig"
    /\ IsWrapped(dom[d])

\* ------------------------------------------------------- claims C11, C20
\* the configurations at the store boundary: the stored one, the one the last
\* getConfig or onConfigChange returned, the ones the last call sent out
AtStore == Range(store.stored) \cup Range(store.returned) \cup Range(store.notified)

\* C11: proportion sum at the store. Every configuration that is stored, that
\* getConfig or the onConfigChange subscription returns or that is sent in a
\* CONFIG_UPDATE has editorProportion + documentationProportion = 100, whatever
\* documentationProportion the caller of saveConfig passed.
C11_ProportionSumAtStore ==
  \A c \in AtStore : c.editorProportion + c.documentationProportion = 100

\* a save of a configuration whose documentationProportion did not fit its
\* editorProportion, stored with the recomputed value
C11_Witness ==
  /\ store.op = "saveConfig"
  /\ store.result = <<TRUE>>
  /\ store.arg[1].editorProportion = 30
  /\ store.arg[1].documentationProportion = 50
  /\ store.stored[1].documentationProportion = 70

\* a number in the range of section 3, or a key the configuration leaves to
\* the defaults
InRange(x, lo, hi) == x = Undefined \/ (lo <= x /\ x <= hi)

\* the field ranges and enumerations of section 3 (line height in tenths)
InRanges(c) ==
  /\ InRange(c.modalWidth, 20, 98)
  /\ InRange(c.modalHeight, 20, 98)
  /\ InRange(c.modalLeft, 0, 100)
  /\ InRange(c.modalTop, 0, 100)
  /\ c.documentationPosition \in Positions
  /\ InRange(c.editorProportion, 30, 80)
  /\ InRange(c.editorFontSize, 10, 24)
  /\ InRange(c.editorLineHeight, 10, 25)
  /\ c.editorFontFamily \in
       {"monospace", "fira-code", "jetbrains-mono", "source-code-pro", "opendyslexic"}
  /\ c.editorTheme \in
       {"light", "dark", "sepia", "high-contrast", "protanopia", "deuteranopia",
        "tritanopia"}
  /\ c.indentGuideStyle \in {"solid", "dotted", "dashed"}

\* C20: an invalid configuration is never persisted. A saveConfig of a
\* configuration that violates a field range or enumeration returns false,
\* leaves the stored configuration as it is and sends no CONFIG_UPDATE; the
\* stored configuration is valid in every state.
C20_InvalidNeverPersisted ==
  [][/\ (store'.op = "saveConfig" /\ ~InRanges(store'.arg[1]))
        => /\ store'.result = <<FALSE>>
           /\ store'.stored = store.stored
           /\ store'.notified = <<>>
     /\ \A c \in Range(store'.stored) : InRanges(c)]_vars

\* ------------------------------------------------------- claims C21 .. C30
\* a required number of section 3: present and in its range
Required(x, lo, hi) == x # Undefined /\ lo <= x /\ x <= hi

\* the data model of section 3 as the validation rule states it: the modal
\* size and the editor proportion are required, the modal position may be
\* absent, the editor fields are in their ranges and enumerations
MatchesDataModel(c) ==
  /\ Required(c.modalWidth, 20, 98)
  /\ Required(c.modalHeight, 20, 98)
  /\ InRange(c.modalLeft, 0, 100)
  /\ InRange(c.modalTop, 0, 100)
  /\ c.documentationPosition \in Positions
  /\ Required(c.editorProportion, 30, 80)
  /\ InRange(c.editorFontSize, 10, 24)
  /\ c.editorFontFamily \in
       {"monospace", "fira-code", "jetbrains-mono", "source-code-pro", "opendyslexic"}
  /\ c.editorTheme \in
       {"light", "dark", "sepia", "high-contrast", "protanopia", "deuteranopia",
        "tritanopia"}
  /\ c.indentGuideStyle \in {"solid", "dotted", "dashed"}

\* C21: validation matches the data model. For every configuration handed to
\* saveConfig, validateConfig returns true exactly when the configuration is
\* in the ranges and enumerations of section 3, and false for every other
\* one, also when a required numeric field is missing or zero.
C21_ValidationMatchesModel ==
  store.op = "saveConfig"
    => (validateConfig(store.arg[1]) <=> MatchesDataModel(store.arg[1]))

\* ---------------------------------------------- a batch of two dialogs (C22)
\* two formula dialogs are open in the document
BatchDialogs == {1, 2}

BatchConfigs ==
  {mergeConfig([DEFAULT_CONFIG EXCEPT !.showDocumentation = s,
                                      !.documentationPosition = p]) :
     s \in BOOLEAN, p \in {"right", "bottom"}}

BatchInit ==
  /\ config \in BatchConfigs
  /\ processedDialogs = {}
  /\ dom \in [BatchDialogs -> {HostDialog(2), HostDialog(3)}]
  /\ resetDom = dom
  /\ appliedKids = [d \in BatchDialogs |-> dom[d].kids[T]]
  /\ resetFrom = [d \in BatchDialogs |-> [state |-> "UNPATCHED", marker |-> FALSE]]
  /\ lastOp = "new"
  /\ lastProcessed = {}
  /\ observer = "null"
  /\ initDone = FALSE
  /\ store = EmptyStore
  /\ thrown = {}
  /\ customizer = "created"
  /\ delivered = <<>>
  /\ editor = <<>>
  /\ locator = <<>>
  /\ panel = <<>>
  /\ pending = NoPending

\* updateConfig in which the reset of the dialogs in failing throws
updateConfigThrowing(newConfig, failing) ==
  /\ updateConfig(newConfig, failing)
  /\ thrown' = failing
  /\ UNCHANGED <<store, customizer, delivered, editor, locator, panel, pending>>

BatchNext ==
  \/ init
  \/ \E newConfig \in BatchConfigs : \E failing \in SUBSET BatchDialogs :
       updateConfigThrowing(newConfig, failing)

BatchSpec == BatchInit /\ [][BatchNext]_vars

\* C22: teardown failure is isolated. In the batch reset of updateConfig, when
\* the reset of one dialog throws, the error is caught: every other dialog is
\* still reset completely, and the reprocess phase runs for all dialogs with
\* an editor region, the failing ones included: each of them is handed to
\* processDialog and is in the processed set afterwards.
C22_TeardownIsolated ==
  [][lastOp' = "updateConfig"
     => \A d \in DOMAIN dom :
          /\ d \notin thrown' => resetDom'[d] = resetDialog(dom[d])
          /\ findFormulaEditor(dom[d]) # NoNode
               => d \in lastProcessed' /\ d \in processedDialogs']_vars

\* ------------------------------- the content script and the store (C23, C27)
\* before CodaFormulaCustomizer.init has constructed the ModalCustomizer
NoConfig == <<>>

\* the configurations the popup hands to saveConfig
PopupConfigs ==
  {[DEFAULT_CONFIG EXCEPT !.modalWidth = w, !.showDocumentation = s,
                          !.documentationPosition = p] :
     w \in {19, 80}, s \in BOOLEAN, p \in {"right", "bottom"}}

\* new CodaFormulaCustomizer(): customizer is null and init awaits getConfig
ContentInit ==
  /\ config = NoConfig
  /\ processedDialogs = {}
  /\ dom \in [Dialogs -> {HostDialog(2), HostDialog(3)}]
  /\ resetDom = dom
  /\ appliedKids = [d \in Dialogs |-> dom[d].kids[T]]
  /\ resetFrom = [d \in Dialogs |-> [state |-> "UNPATCHED", marker |-> FALSE]]
  /\ lastOp = "none"
  /\ lastProcessed = {}
  /\ observer = "null"
  /\ initDone = FALSE
  /\ store = EmptyStore
  /\ thrown = {}
  /\ customizer = "null"
  /\ delivered = <<>>
  /\ editor = <<>>
  /\ locator = <<>>
  /\ panel = <<>>
  /\ pending = NoPending

\* the popup saves; its CONFIG_UPDATE message and its storage change event
\* reach the content script before the popup saves again
popupSave(c) ==
  /\ customizer = "created" => store.notified = <<>> /\ ~store.changed
  /\ saveConfig(c)

\* CodaFormulaCustomizer.init, up to the await: StorageManager.getConfig
fetchConfig ==
  /\ customizer = "null"
  /\ getConfig

\* a start that constructs the ModalCustomizer with the defaults
startWithDefaults ==
  /\ customizer = "null"
  /\ store.op = "getConfig"
  /\ customizer' = "created"
  /\ config' = mergeConfig(DEFAULT_CONFIG)
  /\ delivered' = <<[via |-> "fetch", config |-> store.returned[1], response |-> FALSE]>>
  /\ store' = [store EXCEPT !.notified = <<>>, !.changed = FALSE]
  /\ lastOp' = "new"
  /\ UNCHANGED <<processedDialogs, dom, resetDom, appliedKids, resetFrom, lastProcessed,
                 observer, initDone, thrown, editor, locator, panel, pending>>

\* CodaFormulaCustomizer.init after the await: the ModalCustomizer is
\* constructed with the fetched configuration and the two listeners are
\* registered; messages and storage events from before are not delivered
start ==
  /\ customizer = "null"
  /\ store.op = "getConfig"
  /\ customizer' = "created"
  /\ config' = store.returned[1]
  /\ delivered' = <<[via |-> "fetch", config |-> store.returned[1], response |-> FALSE]>>
  /\ store' = [store EXCEPT !.notified = <<>>, !.changed = FALSE]
  /\ lastOp' = "new"
  /\ UNCHANGED <<processedDialogs, dom, resetDom, appliedKids, resetFrom, lastProcessed,
                 observer, initDone, thrown, editor, locator, panel, pending>>

\* customizer.init(), at once or on DOMContentLoaded
customizerInit ==
  /\ customizer = "created"
  /\ init

\* a message listener that does not call sendResponse
listenForMessagesSilent ==
  /\ customizer = "created"
  /\ store.notified # <<>>
  /\ updateConfig(store.notified[1], {})
  /\ delivered' = <<[via |-> "message", config |-> store.notified[1],
                     response |-> FALSE]>>
  /\ store' = [store EXCEPT !.notified = <<>>]
  /\ UNCHANGED <<thrown, customizer, editor, locator, panel, pending>>

\* the listener of listenForMessages on a CONFIG_UPDATE message
listenForMessages ==
  /\ customizer = "created"
  /\ store.notified # <<>>
  /\ updateConfig(store.notified[1], {})
  /\ delivered' = <<[via |-> "message", config |-> store.notified[1],
                     response |-> TRUE]>>
  /\ store' = [store EXCEPT !.notified = <<>>]
  /\ UNCHANGED <<thrown, customizer, editor, locator, panel, pending>>

\* the callback of listenForConfigChanges on a storage change event
listenForConfigChanges ==
  /\ customizer = "created"
  /\ store.changed
  /\ updateConfig(mergeConfig(store.stored[1]), {})
  /\ delivered' = <<[via |-> "storage", config |-> store.stored[1],
                     response |-> FALSE]>>
  /\ store' = [store EXCEPT !.changed = FALSE, !.op = "onConfigChange",
                            !.arg = <<>>, !.result = <<>>,
                            !.returned = <<mergeConfig(store.stored[1])>>]
  /\ UNCHANGED <<thrown, customizer, editor, locator, panel, pending>>

ContentNext ==
  \/ \E c \in PopupConfigs : popupSave(c)
  \/ fetchConfig
  \/ start
  \/ customizerInit
  \/ processDialogs
  \/ listenForMessages
  \/ listenForConfigChanges

ContentSpec == ContentInit /\ [][ContentNext]_vars

\* the dialogs as a store-subscription notification carrying c leaves them:
\* the callback of onConfigChange hands mergeConfig(c) to updateConfig
notifiedDom(domIn, c) ==
  LET afterReset == resetAll(domIn, {})
      todo == reached(afterReset, toProcess(afterReset, {}), mergeConfig(c))
  IN [d \in DOMAIN domIn |->
        IF d \in todo
        THEN processDialog(afterReset[d], findFormulaEditor(afterReset[d]), mergeConfig(c))
        ELSE afterReset[d]]

Scans == {"init", "processDialogs", "updateConfig"}

\* C27: start ordering. Nothing scans, processes a dialog or runs updateConfig
\* before the first configuration fetch has completed and the watcher exists;
\* the first scan uses the fetched configuration; the listeners act only once
\* the watcher exists.
C27_StartOrdering ==
  [][/\ customizer = "null" => (lastOp' \notin Scans /\ dom' = dom)
     /\ (lastOp = "new" /\ lastOp' \in Scans) => config' = delivered[1].config
     /\ lastOp' = "updateConfig" => customizer = "created"]_vars

\* C27, amended: as C27_StartOrdering, but the first scan uses the fetched
\* configuration or, when init is deferred to DOMContentLoaded and a
\* notification is delivered first, the configuration of that notification.
C27_StartOrderingDeferred ==
  [][/\ customizer = "null" => (lastOp' \notin Scans /\ dom' = dom)
     /\ (lastOp = "new" /\ lastOp' \in Scans)
          => config' = mergeConfig(delivered'[1].config)
     /\ (lastOp = "new" /\ lastOp' = "init") => delivered'[1].via = "fetch"
     /\ lastOp' = "updateConfig" => customizer = "created"]_vars

\* the first scan, by init, with a fetched configuration that is not the
\* default one
C27_Witness ==
  /\ lastOp = "init"
  /\ delivered # <<>>
  /\ delivered[1].via = "fetch"
  /\ config = delivered[1].config
  /\ config.documentationPosition = "bottom"
  /\ processedDialogs # {}

\* --------------------------------------------- the StyleManager (C24, C25)
MaxLines == 2
MaxSpaces == 19

\* the leading white space of the first span of an editor line
LeadingSpaces == {0, 1, 6, 17, 18, MaxSpaces}

\* the seven palettes of applyTheme: background and foreground
themes ==
  [light |-> [bg |-> "#ffffff", color |-> "#000000"],
   dark |-> [bg |-> "#1e1e1e", color |-> "#d4d4d4"],
   sepia |-> [bg |-> "#f4ecd8", color |-> "#5b4636"],
   high_contrast |-> [bg |-> "#000000", color |-> "#ffffff"],
   protanopia |-> [bg |-> "#f5f5f0", color |-> "#005a9c"],
   deuteranopia |-> [bg |-> "#f0f0f5", color |-> "#8b4513"],
   tritanopia |-> [bg |-> "#fff5f0", color |-> "#c41e3a"]]

\* the key of a palette in themes ('high-contrast' is written high_contrast)
themeKey(name) == IF name = "high-contrast" THEN "high_contrast" ELSE name

PaletteNames ==
  {"light", "dark", "sepia", "high-contrast", "protanopia", "deuteranopia",
   "tritanopia"}

\* names that every object literal inherits from Object.prototype
InheritedNames == {"constructor", "toString", "valueOf", "hasOwnProperty"}

\* the editorTheme values applyTheme is called with; "" stands for a missing one
ThemeInputs == PaletteNames \cup {"", "nonexistent", "constructor", "toString"}

\* themes[name] || themes.light; an inherited member is truthy and has no bg
\* and no color (both undefined)
paletteOf(name) ==
  IF name \in PaletteNames THEN themes[themeKey(name)]
  ELSE IF name \in InheritedNames THEN [bg |-> "undefined", color |-> "undefined"]
  ELSE themes.light

\* style.setProperty(property, value, 'important'): a value that does not
\* parse as a colour leaves the declaration as it is
setProperty(old, value) == IF value = "undefined" THEN old ELSE value

NoLine == [hasSpan |-> FALSE, spaces |-> 0, level |-> <<>>, guides |-> FALSE]

\* the editor element before the StyleManager has worked on it; level is the
\* data-indent-level attribute of a line, <<>> when the line has none
HostEditor ==
  [lines |-> [l \in 1..MaxLines |-> NoLine],
   background |-> "", color |-> "", op |-> "none", theme |-> ""]

\* the page at rest: one untouched dialog, an empty store
AtRest ==
  /\ config = mergeConfig(DEFAULT_CONFIG)
  /\ processedDialogs = {}
  /\ dom = [d \in Dialogs |-> HostDialog(2)]
  /\ resetDom = dom
  /\ appliedKids = [d \in Dialogs |-> dom[d].kids[T]]
  /\ resetFrom = [d \in Dialogs |-> [state |-> "UNPATCHED", marker |-> FALSE]]
  /\ lastOp = "new"
  /\ lastProcessed = {}
  /\ observer = "null"
  /\ initDone = FALSE
  /\ store = EmptyStore
  /\ thrown = {}
  /\ customizer = "created"
  /\ delivered = <<>>

StyleInit ==
  /\ AtRest
  /\ editor = HostEditor
  /\ locator = <<>>
  /\ panel = <<>>
  /\ pending = NoPending

\* the user edits line l: it has a first span with n leading spaces, or none
HostEditsLine(l, span, n) ==
  /\ editor' = [editor EXCEPT !.lines[l].hasSpan = span,
                              !.lines[l].spaces = IF span THEN n ELSE 0,
                              !.op = "edit"]
  /\ UNCHANGED <<pageVars, store, thrown, customizer, delivered, locator, panel, pending>>

\* the data-indent-level and data-indent-guides attributes of one line after
\* updateIndentLevels
markLine(line) ==
  IF ~line.hasSpan THEN line
  ELSE LET leadingSpaces == line.spaces
           indentLevel == leadingSpaces \div 2
       IN IF indentLevel > 0 /\ indentLevel <= 8
          THEN [line EXCEPT !.level = <<indentLevel>>, !.guides = TRUE]
          ELSE [line EXCEPT !.level = <<>>, !.guides = FALSE]

\* StyleManager.updateIndentLevels
updateIndentLevels ==
  /\ editor' = [editor EXCEPT !.lines = [l \in 1..MaxLines |-> markLine(editor.lines[l])],
                              !.op = "updateIndentLevels"]
  /\ UNCHANGED <<pageVars, store, thrown, customizer, delivered, locator, panel, pending>>

\* StyleManager.applyTheme(formulaDiv, config) with config.editorTheme = name
applyTheme(name) ==
  /\ editor' = [editor EXCEPT
                  !.background = setProperty(@, paletteOf(name).bg),
                  !.color = setProperty(@, paletteOf(name).color),
                  !.op = "applyTheme", !.theme = name]
  /\ UNCHANGED <<pageVars, store, thrown, customizer, delivered, locator, panel, pending>>

StyleNext ==
  \/ \E l \in 1..MaxLines : \E span \in BOOLEAN : \E n \in LeadingSpaces :
       HostEditsLine(l, span, n)
  \/ updateIndentLevels
  \/ \E name \in ThemeInputs : applyTheme(name)

StyleSpec == StyleInit /\ [][StyleNext]_vars

\* floor(leadingSpaces / 2) capped at 8
cappedLevel(n) == IF n \div 2 > 8 THEN 8 ELSE n \div 2

\* C24: indent level. After updateIndentLevels every editor line with a first
\* span carries data-indent-level = floor(leadingSpaces / 2) capped at 8, and
\* no marker when that level is 0.
C24_IndentLevel ==
  editor.op = "updateIndentLevels"
    => \A l \in 1..MaxLines :
         editor.lines[l].hasSpan
           => editor.lines[l].level =
                IF cappedLevel(editor.lines[l].spaces) = 0 THEN <<>>
                ELSE <<cappedLevel(editor.lines[l].spaces)>>

\* C25: unknown theme fallback. After applyTheme with an editorTheme that is
\* not one of the 7 palette names (a missing one included) the editor has the
\* background and the foreground of the light palette.
C25_UnknownThemeFallback ==
  (editor.op = "applyTheme" /\ editor.theme \notin PaletteNames)
    => /\ editor.background = themes.light.bg
       /\ editor.color = themes.light.color

\* ------------------------------------- a late editor region (C26, liveness)
\* the host page renders the editor region of a dialog that had none, as the
\* first child of the Target Container
HostAddsEditor(d) ==
  /\ findFormulaEditor(dom[d]) = NoNode
  /\ targetOf(dom[d]) # NoNode
  /\ dom' = [dom EXCEPT ![d].kids[T] = <<E>> \o @,
                        ![d].nKids = Len(dom[d].kids[T]) + 1]
  /\ lastOp' = "host"
  /\ lastProcessed' = {}
  /\ UNCHANGED <<config, processedDialogs, resetDom, appliedKids, resetFrom,
                 observer, initDone, store, otherVars>>

\* the configurations of the late-editor runs
LiveConfigs ==
  {c \in Configs : c.editorProportion = 30
                     /\ c.documentationPosition \in {"right", "top", "none"}}

\* the watcher is constructed while the dialog has no editor region yet
LiveInit ==
  /\ config \in LiveConfigs
  /\ processedDialogs = {}
  /\ dom = [d \in Dialogs |-> HostDialogNoEditor]
  /\ resetDom = dom
  /\ appliedKids = [d \in Dialogs |-> dom[d].kids[T]]
  /\ resetFrom = [d \in Dialogs |-> [state |-> "UNPATCHED", marker |-> FALSE]]
  /\ lastOp = "new"
  /\ lastProcessed = {}
  /\ observer = "null"
  /\ initDone = FALSE
  /\ store = EmptyStore
  /\ thrown = {}
  /\ customizer = "created"
  /\ delivered = <<>>
  /\ editor = <<>>
  /\ locator = <<>>
  /\ panel = <<>>
  /\ pending = NoPending

LiveNext ==
  \/ init
  \/ processDialogs
  \/ \E newConfig \in LiveConfigs : configChanged(newConfig)
  \/ \E d \in Dialogs : HostAddsEditor(d)

\* a mutation of the body is followed by a callback of the body observer
\* while the observer is connected (startObserver, subtree and childList)
LiveSpec == LiveInit /\ [][LiveNext]_vars /\ WF_vars(processDialogs)

\* processDialog has customized the dialog with the held configuration
Customized(d) ==
  /\ dom[d].rootStyle = applySize(EmptyRootStyle, config)
  /\ dom[d].editorStyled
  /\ dom[d].settingsBtn
  /\ dom[d].layoutPatched

\* C26: retry after a late editor. A dialog without an editor region is not
\* in the processed set; once the host has added the editor region and the
\* body observer is connected, the dialog is eventually in the processed set
\* and customized with the held configuration.
C26_RetryAfterLateEditor ==
  /\ [](\A d \in Dialogs : findFormulaEditor(dom[d]) = NoNode => d \notin processedDialogs)
  /\ \A d \in Dialogs :
       (findFormulaEditor(dom[d]) # NoNode /\ d \notin processedDialogs
          /\ observer = "connected")
         ~> (d \in processedDialogs /\ Customized(d))

\* the body observer callback has processed a dialog that the scans before
\* passed over because it had no editor region
C26_Witness ==
  /\ lastOp = "processDialogs"
  /\ \E d \in lastProcessed : Customized(d) /\ d \in processedDialogs

\* ---------------------------------------------------------------------
\* The Locator on its own: DOMSelector.findTargetContainer and its
\* fallback walk, applied to the root div of a dialog.  An element is a
\* record of its tag and its element children; an element of the subtree
\* is named by its path of child indices from the root div.
\* ---------------------------------------------------------------------

Tags == {"div", "span"}

leaf(tag) == [tag |-> tag, kids |-> <<>>]

node(tag, kids) == [tag |-> tag, kids |-> kids]

\* querySelector and the walk answer null when nothing is found
NoElement == <<0>>

\* the two innermost levels of the descent
Lasts ==
  {leaf(t) : t \in Tags}
    \cup {node(t1, <<leaf("span"), leaf(t2)>>) : t1 \in Tags, t2 \in Tags}

\* an element standing third among its siblings
Thirds ==
  {leaf(t) : t \in Tags}
    \cup {node(t, <<leaf("div"), b>>) : t \in Tags, b \in Lasts}

\* an inner div with three children
Inners == {node("div", <<leaf("div"), leaf("div"), th>>) : th \in Thirds}

\* the first child of the root div: the settings button once it was
\* added, a host element, or an inner div
Firsts ==
  {leaf("button"), leaf("span"), leaf("div"),
   node("span", <<leaf("div")>>)} \cup Inners

Seconds ==
  {leaf("div"),
   node("div", <<leaf("div"), leaf("div"),
                 node("div", <<leaf("div"),
                               node("div", <<leaf("span"), leaf("div")>>)>>)>>)}

\* the root divs the host renders
Roots ==
  {node("div", <<>>), node("div", <<leaf("div")>>)}
    \cup {node("div", <<f, s, th>>) : f \in Firsts, s \in Seconds, th \in Thirds}

lastElementChild(el) == el.kids[Len(el.kids)]

\* ':scope > div:nth-child(3) > div:last-child > div:last-child'
structuralQuery(rootDiv) ==
  IF Len(rootDiv.kids) < 3 \/ rootDiv.kids[3].tag # "div"
    THEN NoElement
    ELSE LET third == rootDiv.kids[3] IN
         IF Len(third.kids) = 0 \/ lastElementChild(third).tag # "div"
           THEN NoElement
           ELSE LET last1 == lastElementChild(third) IN
                IF Len(last1.kids) = 0 \/ lastElementChild(last1).tag # "div"
                  THEN NoElement
                  ELSE <<3, Len(third.kids), Len(last1.kids)>>

\* element.querySelector('div') among the children from the i-th on: the
\* first div of the subtree in document order
RECURSIVE firstDiv(_, _)
firstDiv(el, i) ==
  IF i > Len(el.kids) THEN NoElement
  ELSE IF el.kids[i].tag = "div" THEN <<i>>
  ELSE LET below == firstDiv(el.kids[i], 1) IN
       IF below # NoElement THEN <<i>> \o below ELSE firstDiv(el, i + 1)

RECURSIVE elementAt(_, _)
elementAt(el, path) ==
  IF path = <<>> THEN el ELSE elementAt(el.kids[Head(path)], Tail(path))

findTargetContainerFallback(rootDiv) ==
  LET firstLevelDiv == firstDiv(rootDiv, 1) IN
  IF firstLevelDiv = NoElement THEN NoElement
  ELSE LET secondLevelDivs == elementAt(rootDiv, firstLevelDiv).kids IN
       IF Len(secondLevelDivs) < 3 THEN NoElement
       ELSE LET thirdDiv == secondLevelDivs[3] IN
            IF Len(thirdDiv.kids) = 0 THEN NoElement
            ELSE LET lastChild1 == lastElementChild(thirdDiv) IN
                 IF Len(lastChild1.kids) = 0 THEN NoElement
                 ELSE firstLevelDiv
                        \o <<3, Len(thirdDiv.kids), Len(lastChild1.kids)>>

\* the answer of findTargetContainer, the element that carries the target
\* marker afterwards, and whether the fallback walk ran; throws: the
\* selector engine rejects the structural selector
findTargetContainerIn(rootDiv, marked, throws) ==
  IF marked # NoElement
    THEN [target |-> marked, marked |-> marked, walked |-> FALSE]
    ELSE IF throws
      THEN LET target == findTargetContainerFallback(rootDiv) IN
           [target |-> target, marked |-> target, walked |-> TRUE]
      ELSE LET target == structuralQuery(rootDiv) IN
           [target |-> target, marked |-> target, walked |-> FALSE]

\* ':scope > div > div:nth-child(3) > div:last-child > div:last-child' of
\* the page script, among the children of the root div from the i-th on
RECURSIVE scopedQuery(_, _)
scopedQuery(rootDiv, i) ==
  IF i > Len(rootDiv.kids) THEN NoElement
  ELSE IF rootDiv.kids[i].tag = "div"
            /\ structuralQuery(rootDiv.kids[i]) # NoElement
         THEN <<i>> \o structuralQuery(rootDiv.kids[i])
         ELSE scopedQuery(rootDiv, i + 1)

getTargetContainer(rootDiv, throws) ==
  IF throws THEN findTargetContainerFallback(rootDiv)
            ELSE scopedQuery(rootDiv, 1)

LocatorInit ==
  /\ AtRest
  /\ editor = <<>>
  /\ locator \in {[rootDiv |-> r, marked |-> NoElement, asked |-> "nothing",
                   threw |-> FALSE, walked |-> FALSE, target |-> NoElement]
                    : r \in Roots}
  /\ panel = <<>>
  /\ pending = NoPending

LocatorFrame == UNCHANGED <<pageVars, store, thrown, customizer, delivered, editor, panel, pending>>

\* the host renders another root div
HostRendersRoot(r) ==
  /\ locator' = [rootDiv |-> r, marked |-> NoElement, asked |-> "nothing",
                 threw |-> FALSE, walked |-> FALSE, target |-> NoElement]
  /\ LocatorFrame

locate(throws) ==
  /\ \E found \in {findTargetContainerIn(locator.rootDiv, locator.marked, throws)} :
       locator' = [locator EXCEPT !.asked = IF locator.marked # NoElement
                                              THEN "marker" ELSE "query",
                                  !.threw = throws /\ locator.marked = NoElement,
                                  !.walked = found.walked,
                                  !.target = found.target,
                                  !.marked = found.marked]
  /\ LocatorFrame

locateFallback ==
  /\ locator' = [locator EXCEPT !.asked = "fallback",
                                !.threw = FALSE,
                                !.walked = TRUE,
                                !.target = findTargetContainerFallback(locator.rootDiv)]
  /\ LocatorFrame

locatePageScript(throws) ==
  /\ locator' = [locator EXCEPT !.asked = "page script",
                                !.threw = throws,
                                !.walked = throws,
                                !.target = getTargetContainer(locator.rootDiv, throws)]
  /\ LocatorFrame

LocatorNext ==
  \/ \E r \in Roots : HostRendersRoot(r)
  \/ \E throws \in BOOLEAN : locate(throws)
  \/ locateFallback
  \/ \E throws \in BOOLEAN : locatePageScript(throws)

LocatorSpec == LocatorInit /\ [][LocatorNext]_vars

\* C28: for every root div the fallback walk returns the element the
\* structural selector query returns, and returns nothing exactly when the
\* query finds nothing.
C28_FallbackEquivalence ==
  locator # <<>> /\ locator.asked = "fallback"
    => locator.target = structuralQuery(locator.rootDiv)

\* C29: findTargetContainer, asked about a root div that carries no target
\* marker, runs the fallback walk when the structural query throws and when
\* it returns nothing, and answers nothing only when the fallback walk finds
\* nothing either.
C29_FallbackTrigger ==
  locator # <<>> /\ locator.asked = "query"
    => /\ locator.walked
            <=> (locator.threw \/ structuralQuery(locator.rootDiv) = NoElement)
       /\ locator.target = NoElement
            => findTargetContainerFallback(locator.rootDiv) = NoElement

\* ---------------------------------------------------------------------
\* The layout marker of processDialog (data-coda-formula-layout-patched)
\* ---------------------------------------------------------------------

\* the dialog d as the wrapping step of this step found it: after the reset
\* in updateConfig, as the scan found it otherwise
wrapStart(d) == IF lastOp' = "updateConfig" THEN resetDom'[d] ELSE dom[d]

\* this step ran the wrapping step of processDialog on the Target Container
\* of d
wrapApplied(d) ==
  /\ d \in lastProcessed'
  /\ targetOf(wrapStart(d)) # NoNode
  /\ ~wrapStart(d).layoutPatched

\* processDialog applied once more to a dialog that carries the marker
\* sizes and styles it and leaves the subtree of the dialog alone
markerStopsLayoutOnly(dd, cfg) ==
  LET again == processDialog(dd, findFormulaEditor(dd), cfg) IN
  /\ again.kids = dd.kids
  /\ again.style = dd.style
  /\ again.layoutPatched
  /\ again.rootStyle = applySize(dd.rootStyle, cfg)
  /\ again.background = (IF cfg.transparentBackground THEN "transparent" ELSE "")
  /\ again.settingsBtn
  /\ again.editorStyled

PanelInit ==
  /\ config \in Configs
  /\ processedDialogs = {}
  /\ dom \in [Dialogs -> {HostDialog(2), HostDialogFlexPanel}]
  /\ resetDom = dom
  /\ appliedKids = [d \in Dialogs |-> dom[d].kids[T]]
  /\ resetFrom = [d \in Dialogs |-> [state |-> "UNPATCHED", marker |-> FALSE]]
  /\ lastOp = "new"
  /\ lastProcessed = {}
  /\ observer = "null"
  /\ initDone = FALSE
  /\ store = EmptyStore
  /\ thrown = {}
  /\ customizer = "created"
  /\ delivered = <<>>
  /\ editor = <<>>
  /\ locator = <<>>
  /\ panel = <<>>
  /\ pending = NoPending

PanelSpec == PanelInit /\ [][Next]_vars

\* the elements of dialog dd that are attached and that the engine did not
\* create
hostElements(dd) == Descendants(dd.kids, ROOT) \ Wrappers

\* C31: no step of the engine (process, hide, wrap, reset) detaches an
\* element of the host page from the dialog; only wrappers leave it.
C31_HostElementsStay ==
  [][\A d \in Dialogs : hostElements(dom[d]) \subseteq hostElements(dom'[d])]_vars

\* ---------------------------------------------------------------------
\* The StyleManager in the document: the style elements it keeps in the
\* head, its indent observer, and the StyleManager that updateConfig puts in
\* its place (new DialogProcessor, new StyleManager).  The inline font
\* declarations of applyEditorStyles are the editorStyled flag of the dialog.
\* ---------------------------------------------------------------------

\* the editor and the document head before the StyleManager has worked on
\* them: no style element, no indent observer
GuideEditor ==
  [lines |-> [l \in 1..MaxLines |-> NoLine],
   background |-> "", color |-> "", op |-> "none", theme |-> "",
   \* StyleManager.indentObserver of the StyleManager in use
   indentObserver |-> "null",
   \* connected indent observers of StyleManagers that are no longer in use
   strayObservers |-> 0,
   \* the text of the style elements with the id coda-formula-editor-styles
   fontStyles |-> <<>>,
   \* the number of style elements with the id coda-indent-guides-styles
   guideStyles |-> 0]

fontMap(name) ==
  IF name \in {"monospace", "fira-code", "jetbrains-mono", "source-code-pro",
               "opendyslexic"}
  THEN name ELSE "monospace"

\* the declarations injectGlobalStyles writes into the style element
styleText(cfg) ==
  [fontFamily |-> fontMap(cfg.editorFontFamily),
   fontSize |-> IF Truthy(cfg.editorFontSize) THEN cfg.editorFontSize ELSE 14,
   lineHeight |-> IF Truthy(cfg.editorLineHeight) THEN cfg.editorLineHeight ELSE 15]

\* an injectGlobalStyles that does not remove the style element it finds
injectGlobalStylesKeepsOld(ed, cfg) ==
  [ed EXCEPT !.fontStyles = Append(@, styleText(cfg))]

\* getElementById finds the first element with the id
injectGlobalStyles(ed, cfg) ==
  [ed EXCEPT !.fontStyles =
     Append(IF Len(@) > 0 THEN Tail(@) ELSE @, styleText(cfg))]

themed(ed, name) ==
  [ed EXCEPT !.background = setProperty(@, paletteOf(name).bg),
             !.color = setProperty(@, paletteOf(name).color),
             !.theme = name]

stopIndentObserver(ed) == [ed EXCEPT !.indentObserver = "null"]

\* disconnects the observer of this StyleManager, if any, and connects a new one
startIndentObserver(ed) == [ed EXCEPT !.indentObserver = "connected"]

\* removeAttribute of both attributes on every line that has one of them
unmarkLine(line) == [line EXCEPT !.level = <<>>, !.guides = FALSE]

applyIndentGuides(ed, cfg) ==
  IF ~cfg.showIndentGuides
    THEN stopIndentObserver(
           [ed EXCEPT !.guideStyles = IF @ > 0 THEN @ - 1 ELSE @,
                      !.lines = [l \in 1..MaxLines |-> unmarkLine(ed.lines[l])]])
    ELSE startIndentObserver(
           [ed EXCEPT !.guideStyles = IF @ = 0 THEN 1 ELSE @,
                      !.lines = [l \in 1..MaxLines |-> markLine(ed.lines[l])]])

applyEditorStyles(ed, cfg) ==
  [applyIndentGuides(themed(injectGlobalStyles(ed, cfg), cfg.editorTheme), cfg)
     EXCEPT !.op = "applyEditorStyles"]

\* new StyleManager(): indentObserver is null in it; the observer of the
\* StyleManager it replaces stays connected to the editors
newStyleManager(ed) ==
  [ed EXCEPT !.indentObserver = "null",
             !.strayObservers = IF ed.indentObserver = "connected" /\ @ < MaxObservers
                                THEN @ + 1 ELSE @]

\* the configurations of the style runs
GuideConfigs ==
  {[c EXCEPT !.showIndentGuides = s, !.editorFontSize = f] :
     c \in {mergeConfig(DEFAULT_CONFIG)}, s \in BOOLEAN, f \in {14, 18}}

GuideInit ==
  /\ config \in GuideConfigs
  /\ processedDialogs = {}
  /\ dom \in [Dialogs -> {HostDialog(2), HostDialogNoEditor}]
  /\ resetDom = dom
  /\ appliedKids = [d \in Dialogs |-> dom[d].kids[T]]
  /\ resetFrom = [d \in Dialogs |-> [state |-> "UNPATCHED", marker |-> FALSE]]
  /\ lastOp = "new"
  /\ lastProcessed = {}
  /\ observer = "null"
  /\ initDone = FALSE
  /\ store = EmptyStore
  /\ thrown = {}
  /\ customizer = "created"
  /\ delivered = <<>>
  /\ editor = GuideEditor
  /\ locator = <<>>
  /\ panel = <<>>
  /\ pending = NoPending

GuideFrame == UNCHANGED <<store, thrown, customizer, delivered, locator, panel, pending>>

\* ModalCustomizer.init with the applyEditorStyles of the dialog it processes
guideInitPage ==
  /\ ~initDone
  /\ scanPage
  /\ observer' = IF \E d \in lastProcessed' : processThrows(dom[d], config)
                 THEN observer ELSE "connected"
  /\ initDone' = TRUE
  /\ lastOp' = "init"
  /\ editor' = IF lastProcessed' # {} THEN applyEditorStyles(editor, config)
               ELSE editor

guideInit ==
  /\ guideInitPage
  /\ GuideFrame

\* the callback of the body observer, as far as the page goes
guideScanPage ==
  /\ observer = "connected"
  /\ scanPage
  /\ lastOp' = "processDialogs"
  /\ editor' = IF lastProcessed' # {} THEN applyEditorStyles(editor, config)
               ELSE editor
  /\ UNCHANGED <<observer, initDone>>

\* the callback of the body observer
guideProcessDialogs ==
  /\ guideScanPage
  /\ GuideFrame

\* ModalCustomizer.updateConfig with the StyleManager of the new
\* DialogProcessor
guideUpdatePage(newConfig) ==
  /\ updateConfig(newConfig, {})
  /\ editor' = IF lastProcessed' # {}
               THEN applyEditorStyles(newStyleManager(editor), newConfig)
               ELSE newStyleManager(editor)

guideUpdateConfig(newConfig) ==
  /\ guideUpdatePage(newConfig)
  /\ GuideFrame

\* the callback of an indent observer, after the editor content changed
indentObserverCallback ==
  /\ editor.indentObserver = "connected" \/ editor.strayObservers > 0
  /\ editor.op = "edit"
  /\ updateIndentLevels

GuideNext ==
  \/ guideInit
  \/ guideProcessDialogs
  \/ \E newConfig \in GuideConfigs : guideUpdateConfig(newConfig)
  \/ \E n \in {0, 6} : HostEditsLine(1, TRUE, n)
  \/ \E d \in Dialogs : HostAddsEditor(d)
  \/ indentObserverCallback

GuideSpec == GuideInit /\ [][GuideNext]_vars

\* C32: while the watcher holds a configuration with showIndentGuides = false
\* that it has applied to a dialog, no indent observer is connected and no
\* editor line carries data-indent-level or data-indent-guides, whatever the
\* host does to the editor content.
C32_IndentObserverTeardown ==
  (~config.showIndentGuides /\ processedDialogs # {})
    => /\ editor.indentObserver = "null"
       /\ editor.strayObservers = 0
       /\ \A l \in 1..MaxLines :
            editor.lines[l].level = <<>> /\ ~editor.lines[l].guides

\* the watcher has just applied its configuration to a dialog with an editor
justApplied ==
  lastOp \in {"init", "processDialogs", "updateConfig"} /\ lastProcessed # {}

\* C33: the document never holds more than one style element with the
\* editor-font id nor more than one with the indent-guide id, and after
\* applyEditorStyles the editor-font element carries the font family, size
\* and line height of the configuration that was applied.
C33_OneStyleBlock ==
  /\ Len(editor.fontStyles) <= 1
  /\ editor.guideStyles <= 1
  /\ justApplied
       => /\ Len(editor.fontStyles) = 1
          /\ editor.fontStyles[1].fontFamily = config.editorFontFamily
          /\ editor.fontStyles[1].fontSize = config.editorFontSize
          /\ editor.fontStyles[1].lineHeight = config.editorLineHeight

\* a dialog that was styled before is styled again by updateConfig with the
\* larger font, and the head holds one element of each kind
C33_Witness ==
  /\ lastOp = "updateConfig"
  /\ lastProcessed # {}
  /\ \E d \in Dialogs : resetFrom[d].marker
  /\ config.editorFontSize = 18
  /\ config.showIndentGuides
  /\ Len(editor.fontStyles) = 1
  /\ editor.guideStyles = 1

\* ---------------------------------------------------------------------
\* Two dialogs, one of which has its editor region inside the last child of
\* its Target Container
\* ---------------------------------------------------------------------

FaultInit ==
  /\ config \in BatchConfigs
  /\ processedDialogs = {}
  /\ dom \in [BatchDialogs -> {HostDialog(2), HostDialogEditorInLast}]
  /\ resetDom = dom
  /\ appliedKids = [d \in BatchDialogs |-> dom[d].kids[T]]
  /\ resetFrom = [d \in BatchDialogs |-> [state |-> "UNPATCHED", marker |-> FALSE]]
  /\ lastOp = "new"
  /\ lastProcessed = {}
  /\ observer = "null"
  /\ initDone = FALSE
  /\ store = EmptyStore
  /\ thrown = {}
  /\ customizer = "created"
  /\ delivered = <<>>
  /\ editor = <<>>
  /\ locator = <<>>
  /\ panel = <<>>
  /\ pending = NoPending

FaultNext ==
  \/ init
  \/ processDialogs
  \/ \E newConfig \in BatchConfigs : configChanged(newConfig)

FaultSpec == FaultInit /\ [][FaultNext]_vars

\* processDialog has sized and styled dialog dd
Processed(dd) == dd.settingsBtn /\ dd.editorStyled

\* C34: a scan (by init or by the body observer) processes every dialog with
\* an editor region that was not processed before, also when processDialog
\* throws on one of them, and leaves the body observer connected.
C34_FailingDialogIsolated ==
  [][lastOp' \in {"init", "processDialogs"}
       => /\ \A d \in toProcess(dom, processedDialogs) : Processed(dom'[d])
          /\ observer' = "connected"]_vars

\* ---------------------------------------------------------------------
\* A late Target Container: the dialog has its editor region, the host
\* renders the Target Container or its second child after the first scan
\* ---------------------------------------------------------------------

\* the host renders the documentation panel into a Target Container that
\* held the editor region alone
HostAddsPanel(d) ==
  /\ targetOf(dom[d]) # NoNode
  /\ dom[d].kids[T] = <<E>>
  /\ dom' = [dom EXCEPT ![d].kids[T] = <<E, DOC>>, ![d].nKids = 2]
  /\ lastOp' = "host"
  /\ lastProcessed' = {}
  /\ UNCHANGED <<config, processedDialogs, resetDom, appliedKids, resetFrom,
                 observer, initDone, store, otherVars>>

\* the host renders the Target Container around the editor region and the
\* documentation panel
HostAddsTarget(d) ==
  /\ targetOf(dom[d]) = NoNode
  /\ findFormulaEditor(dom[d]) # NoNode
  /\ dom' = [dom EXCEPT ![d].kids[ROOT] = <<T>>, ![d].kids[T] = <<E, DOC>>,
                        ![d].nKids = 2]
  /\ lastOp' = "host"
  /\ lastProcessed' = {}
  /\ UNCHANGED <<config, processedDialogs, resetDom, appliedKids, resetFrom,
                 observer, initDone, store, otherVars>>

LateInit ==
  /\ config \in LiveConfigs
  /\ processedDialogs = {}
  /\ dom \in [Dialogs -> {HostDialog(1), HostDialogNoTarget}]
  /\ resetDom = dom
  /\ appliedKids = [d \in Dialogs |-> dom[d].kids[T]]
  /\ resetFrom = [d \in Dialogs |-> [state |-> "UNPATCHED", marker |-> FALSE]]
  /\ lastOp = "new"
  /\ lastProcessed = {}
  /\ observer = "null"
  /\ initDone = FALSE
  /\ store = EmptyStore
  /\ thrown = {}
  /\ customizer = "created"
  /\ delivered = <<>>
  /\ editor = <<>>
  /\ locator = <<>>
  /\ panel = <<>>
  /\ pending = NoPending

LateNext ==
  \/ init
  \/ processDialogs
  \/ \E newConfig \in LiveConfigs : configChanged(newConfig)
  \/ \E d \in Dialogs : HostAddsPanel(d)
  \/ \E d \in Dialogs : HostAddsTarget(d)

\* a mutation of the body is followed by a callback of the body observer
\* while the observer is connected
LateSpec == LateInit /\ [][LateNext]_vars /\ WF_vars(processDialogs)

\* C35: once a dialog with an editor region has a Target Container with two
\* or more children and the body observer is connected, the Target Container
\* eventually is HIDDEN or WRAPPED, also when the host rendered the container
\* or its second child after the first scan and no configuration change
\* follows.
C35_LateTargetContainer ==
  \A d \in Dialogs :
    (/\ findFormulaEditor(dom[d]) # NoNode
     /\ targetOf(dom[d]) # NoNode
     /\ Len(dom[d].kids[T]) >= 2
     /\ observer = "connected")
      ~> LayoutStateOf(dom[d]) \in {"HIDDEN", "WRAPPED"}

\* ------------------------------------- the in-page settings panel (C36)
\* SettingsPanel.getConfigFromUI: the object holds the fifteen fields read from
\* the controls and has no documentationProportion
UIConfigs ==
  {[DEFAULT_CONFIG EXCEPT !.documentationProportion = Undefined,
                          !.documentationPosition = p, !.editorProportion = e] :
     p \in {"right", "bottom"}, e \in {50, 66}}

\* SettingsPanel.handleSave up to the dispatch: the panel was opened with the
\* settings button of a dialog; saveConfig runs in the content script, where
\* chrome.tabs is not available and no CONFIG_UPDATE message is sent; on
\* success the configuration read from the controls is the event's detail
handleSave(newConfig) ==
  /\ customizer = "created"
  /\ initDone
  /\ \E d \in DOMAIN dom : dom[d].settingsBtn
  /\ panel = <<>>
  /\ ~store.changed
  /\ \E ok \in BOOLEAN :
       /\ store' =
            IF validateConfig(newConfig) /\ ok
            THEN [store EXCEPT !.stored = <<mergeConfig(newConfig)>>, !.changed = TRUE,
                               !.op = "saveConfig", !.arg = <<newConfig>>,
                               !.result = <<TRUE>>, !.returned = <<>>,
                               !.notified = <<>>]
            ELSE [store EXCEPT !.op = "saveConfig", !.arg = <<newConfig>>,
                               !.result = <<FALSE>>, !.returned = <<>>,
                               !.notified = <<>>]
       /\ panel' = IF validateConfig(newConfig) /\ ok THEN <<newConfig>> ELSE <<>>
  /\ UNCHANGED <<pageVars, thrown, customizer, delivered, editor, locator, pending>>

\* window.dispatchEvent of codaFormulaConfigChanged: the listener of
\* ModalCustomizer.listenForConfigChanges hands event.detail to updateConfig
codaFormulaConfigChanged ==
  /\ panel # <<>>
  /\ updateConfig(panel[1], {})
  /\ delivered' = <<[via |-> "event", config |-> panel[1], response |-> FALSE]>>
  /\ panel' = <<>>
  /\ UNCHANGED <<store, thrown, customizer, editor, locator, pending>>

SettingsConfigs ==
  {[DEFAULT_CONFIG EXCEPT !.documentationPosition = p] : p \in {"right", "left"}}

SettingsNext ==
  \/ \E c \in SettingsConfigs : popupSave(c)
  \/ fetchConfig
  \/ start
  \/ customizerInit
  \/ processDialogs
  \/ listenForMessages
  \/ listenForConfigChanges
  \/ \E c \in UIConfigs : handleSave(c)
  \/ codaFormulaConfigChanged

SettingsSpec == ContentInit /\ [][SettingsNext]_vars

\* C36: proportions of the held configuration. Whichever path delivers a
\* configuration to updateConfig (storage change subscription, CONFIG_UPDATE
\* message or the codaFormulaConfigChanged event of the settings panel), the
\* configuration the watcher holds has documentationProportion equal to
\* 100 - editorProportion, and in every WRAPPED state the flex factors of the
\* elements in the wrapper sum to 100.
RECURSIVE flexSum(_, _)
flexSum(st, ks) ==
  IF ks = <<>> THEN 0
  ELSE (IF st[Head(ks)].flex = <<>> THEN 0 ELSE st[Head(ks)].flex[1]) + flexSum(st, Tail(ks))

C36_HeldProportions ==
  customizer = "created"
    => /\ config.documentationProportion = 100 - config.editorProportion
       /\ \A d \in DOMAIN dom :
            LayoutStateOf(dom[d]) = "WRAPPED"
              => \A w \in TargetWrappers(dom[d]) : flexSum(dom[d].style, dom[d].kids[w]) = 100

\* ---------------------------------------------------------------------
\* An editor region nested in a child of the Target Container (C37)
\* ---------------------------------------------------------------------

NestedInit ==
  /\ config \in Configs
  /\ processedDialogs = {}
  /\ dom \in [Dialogs -> {HostDialog(2), HostDialogEditorInFirst}]
  /\ resetDom = dom
  /\ appliedKids = [d \in Dialogs |-> dom[d].kids[T]]
  /\ resetFrom = [d \in Dialogs |-> [state |-> "UNPATCHED", marker |-> FALSE]]
  /\ lastOp = "new"
  /\ lastProcessed = {}
  /\ observer = "null"
  /\ initDone = FALSE
  /\ store = EmptyStore
  /\ thrown = {}
  /\ customizer = "created"
  /\ delivered = <<>>
  /\ editor = <<>>
  /\ locator = <<>>
  /\ panel = <<>>
  /\ pending = NoPending

NestedSpec == NestedInit /\ [][Next]_vars

\* C37: wrapper placement. Every wrapper of the engine that is in the document
\* is a direct child of its Target Container, and the documentation panel is a
\* direct child of the Target Container or of such a wrapper, also when the
\* editor region is nested inside a child of the Target Container.
C37_WrapperPlacement ==
  \A d \in DOMAIN dom :
    /\ AttachedWrappers(dom[d]) \subseteq Range(dom[d].kids[T])
    /\ IsAttached(dom[d].kids, DOC)
         => \/ DOC \in Range(dom[d].kids[T])
            \/ \E w \in TargetWrappers(dom[d]) : DOC \in Range(dom[d].kids[w])

\* ---------------------------------------------------------------------
\* The queues of the three kinds of MutationObserver (C38)
\* ---------------------------------------------------------------------
MaxHostMoves == 3

\* the options of the observe calls of startObserver, observeSideChild and
\* startIndentObserver
bodyObserverOptions ==
  [childList |-> TRUE, subtree |-> TRUE, attributes |-> FALSE, characterData |-> FALSE]

sideObserverOptions ==
  [childList |-> TRUE, subtree |-> TRUE, attributes |-> TRUE, characterData |-> FALSE]

indentObserverOptions ==
  [childList |-> TRUE, subtree |-> TRUE, attributes |-> FALSE, characterData |-> TRUE]

\* a write changed the children of a node of ns / the style attribute of a node
\* of ns; an assignment of the value a style property has already queues no
\* record
childListChanged(before, after, ns) == \E n \in ns : after.kids[n] # before.kids[n]

attributesChanged(before, after, ns) == \E n \in ns : after.style[n] # before.style[n]

\* the writes that lead from before to after queue a record for the body observer
bodyRecords(before, after) ==
  \/ /\ bodyObserverOptions.childList
     /\ \/ childListChanged(before, after, Nodes)
        \/ after.settingsBtn # before.settingsBtn
  \/ bodyObserverOptions.attributes /\ attributesChanged(before, after, Nodes)

\* the elements with a side-panel observer, and the nodes these observers watch
observedRoots(dd) == {s \in Nodes : dd.sideObservers[s] > 0}

observedBySide(dd) ==
  observedRoots(dd) \cup
    (IF sideObserverOptions.subtree
     THEN UNION {Descendants(dd.kids, s) : s \in observedRoots(dd)} ELSE {})

\* the writes that lead from before to after queue a record for a side-panel
\* observer that was registered before them
sideRecords(before, after) ==
  \/ sideObserverOptions.childList
       /\ childListChanged(before, after, observedBySide(before))
  \/ sideObserverOptions.attributes
       /\ attributesChanged(before, after, observedBySide(before))

\* some indent observer is connected to the editor
indentObserved(ed) == ed.indentObserver = "connected" \/ ed.strayObservers > 0

\* updateIndentLevels calls setAttribute on the line, or removeAttribute for an
\* attribute the line has: either queues a record where attributes are observed
writesAttribute(line) ==
  /\ line.hasSpan
  /\ \/ line.spaces \div 2 > 0 /\ line.spaces \div 2 <= 8
     \/ line.level # <<>>
     \/ line.guides

\* the callbacks of all side-panel observers of a dialog, one after the other
RECURSIVE adjustObserved(_, _)
adjustObserved(dd, roots) ==
  IF roots = {} THEN dd
  ELSE LET s == CHOOSE x \in roots : \A y \in roots : x <= y
       IN adjustObserved(adjustSideChildLayout(dd, s), roots \ {s})

QuietFrame == UNCHANGED <<store, thrown, customizer, delivered, locator, panel>>

\* the records the step queues: b for the body observer, s for the side-panel
\* observers, i for the indent observers, written by who
queue(p, b, s, i, who) ==
  [p EXCEPT !.body = @ \/ b, !.side = @ \/ s, !.indent = @ \/ i,
            !.cause = IF b \/ s \/ i THEN who ELSE @]

\* ModalCustomizer.init: every observer is connected after the writes of the
\* step that creates it
quietInit ==
  /\ guideInitPage
  /\ pending' = queue(pending,
                      observer = "connected"
                        /\ \E d \in DOMAIN dom : bodyRecords(dom[d], dom'[d]),
                      \E d \in DOMAIN dom : sideRecords(dom[d], dom'[d]),
                      indentObserved(editor) /\ indentObserverOptions.attributes
                        /\ editor'.lines # editor.lines,
                      "engine")
  /\ QuietFrame

\* a configuration reaches the watcher: the reset and the reprocessing write
\* to the document
quietUpdateConfig(newConfig) ==
  /\ pending.hostMoves < MaxHostMoves
  /\ guideUpdatePage(newConfig)
  /\ pending' = [queue(pending,
                       observer = "connected"
                         /\ \E d \in DOMAIN dom :
                              \/ bodyRecords(dom[d], resetDom'[d])
                              \/ bodyRecords(resetDom'[d], dom'[d]),
                       \E d \in DOMAIN dom :
                         \/ sideRecords(dom[d], resetDom'[d])
                         \/ sideRecords(resetDom'[d], dom'[d]),
                       indentObserved(editor) /\ indentObserverOptions.attributes
                         /\ editor'.lines # editor.lines,
                       "host")
                   EXCEPT !.hostMoves = @ + 1]
  /\ QuietFrame

\* the user edits the first line of the editor: a characterData record
quietEditsLine(n) ==
  /\ pending.hostMoves < MaxHostMoves
  /\ editor' = [editor EXCEPT !.lines[1].hasSpan = TRUE, !.lines[1].spaces = n,
                              !.op = "edit"]
  /\ pending' = [queue(pending, FALSE, FALSE,
                       indentObserved(editor) /\ indentObserverOptions.characterData,
                       "host")
                   EXCEPT !.hostMoves = @ + 1]
  /\ UNCHANGED pageVars
  /\ QuietFrame

\* the host renders the content of the documentation panel again: its
\* description and its result list are new elements
quietRendersPanel(d) ==
  /\ pending.hostMoves < MaxHostMoves
  /\ IsAttached(dom[d].kids, DOC)
  /\ dom' = [dom EXCEPT ![d].style[DESC] = EmptyStyle, ![d].style[LIST] = EmptyStyle]
  /\ lastOp' = "host"
  /\ lastProcessed' = {}
  /\ pending' = [queue(pending,
                       observer = "connected" /\ bodyObserverOptions.childList,
                       sideObserverOptions.childList
                         /\ DOC \in observedBySide(dom[d]),
                       FALSE, "host")
                   EXCEPT !.hostMoves = @ + 1]
  /\ UNCHANGED <<config, processedDialogs, resetDom, appliedKids, resetFrom,
                 observer, initDone, editor>>
  /\ QuietFrame

\* the host renders the editor region of a dialog that had none
quietAddsEditor(d) ==
  /\ pending.hostMoves < MaxHostMoves
  /\ findFormulaEditor(dom[d]) = NoNode
  /\ targetOf(dom[d]) # NoNode
  /\ dom' = [dom EXCEPT ![d].kids[T] = <<E>> \o @,
                        ![d].nKids = Len(dom[d].kids[T]) + 1]
  /\ lastOp' = "host"
  /\ lastProcessed' = {}
  /\ pending' = [queue(pending,
                       observer = "connected" /\ bodyObserverOptions.childList,
                       FALSE, FALSE, "host")
                   EXCEPT !.hostMoves = @ + 1]
  /\ UNCHANGED <<config, processedDialogs, resetDom, appliedKids, resetFrom,
                 observer, initDone, editor>>
  /\ QuietFrame

\* the callback of the body observer takes the records queued for it and runs
\* processDialogs
bodyObserverCallback ==
  /\ pending.body
  /\ guideScanPage
  /\ pending' = queue([pending EXCEPT !.body = FALSE],
                      \E d \in DOMAIN dom : bodyRecords(dom[d], dom'[d]),
                      \E d \in DOMAIN dom : sideRecords(dom[d], dom'[d]),
                      indentObserved(editor) /\ indentObserverOptions.attributes
                        /\ editor'.lines # editor.lines,
                      "engine")
  /\ QuietFrame

\* the callbacks of the side-panel observers take their records and run
\* adjustSideChildLayout on their side child
sideObserverCallback ==
  /\ pending.side
  /\ dom' = [d \in DOMAIN dom |-> adjustObserved(dom[d], observedRoots(dom[d]))]
  /\ lastOp' = "adjustSideChildLayout"
  /\ lastProcessed' = {}
  /\ pending' = queue([pending EXCEPT !.side = FALSE],
                      observer = "connected"
                        /\ \E d \in DOMAIN dom : bodyRecords(dom[d], dom'[d]),
                      \E d \in DOMAIN dom : sideRecords(dom[d], dom'[d]),
                      FALSE, "engine")
  /\ UNCHANGED <<config, processedDialogs, resetDom, appliedKids, resetFrom,
                 observer, initDone, editor>>
  /\ QuietFrame

\* the callbacks of the indent observers take their records and run
\* updateIndentLevels
indentCallback ==
  /\ pending.indent
  /\ editor' = [editor EXCEPT !.lines = [l \in 1..MaxLines |-> markLine(editor.lines[l])],
                              !.op = "updateIndentLevels"]
  /\ pending' = queue([pending EXCEPT !.indent = FALSE], FALSE, FALSE,
                      indentObserverOptions.attributes
                        /\ \E l \in 1..MaxLines : writesAttribute(editor.lines[l]),
                      "engine")
  /\ UNCHANGED pageVars
  /\ QuietFrame

\* the configurations of the observer runs
QuietConfigs ==
  {[c EXCEPT !.showIndentGuides = g, !.showDocumentation = s] :
     c \in {mergeConfig(DEFAULT_CONFIG)}, g \in BOOLEAN, s \in BOOLEAN}

QuietInit ==
  /\ config \in QuietConfigs
  /\ processedDialogs = {}
  /\ dom \in [Dialogs -> {HostDialog(2), HostDialogNoEditor}]
  /\ resetDom = dom
  /\ appliedKids = [d \in Dialogs |-> dom[d].kids[T]]
  /\ resetFrom = [d \in Dialogs |-> [state |-> "UNPATCHED", marker |-> FALSE]]
  /\ lastOp = "new"
  /\ lastProcessed = {}
  /\ observer = "null"
  /\ initDone = FALSE
  /\ store = EmptyStore
  /\ thrown = {}
  /\ customizer = "created"
  /\ delivered = <<>>
  /\ editor = GuideEditor
  /\ locator = <<>>
  /\ panel = <<>>
  /\ pending = NoPending

QuietNext ==
  \/ quietInit
  \/ \E newConfig \in QuietConfigs : quietUpdateConfig(newConfig)
  \/ \E n \in {0, 6} : quietEditsLine(n)
  \/ \E d \in Dialogs : quietRendersPanel(d)
  \/ \E d \in Dialogs : quietAddsEditor(d)
  \/ bodyObserverCallback
  \/ sideObserverCallback
  \/ indentCallback

\* the callbacks of MutationObservers are microtasks: the browser runs every
\* callback that has records queued
QuietSpec ==
  /\ QuietInit
  /\ [][QuietNext]_vars
  /\ WF_vars(bodyObserverCallback)
  /\ WF_vars(sideObserverCallback)
  /\ WF_vars(indentCallback)

NoCallbackPending == ~pending.body /\ ~pending.side /\ ~pending.indent

\* a callback of a connected observer, if it ran now, would write to the document
wouldWrite ==
  \/ observer = "connected"
       /\ reached(dom, toProcess(dom, processedDialogs), config) # {}
  \/ \E d \in DOMAIN dom : adjustObserved(dom[d], observedRoots(dom[d])) # dom[d]
  \/ indentObserved(editor)
       /\ \E l \in 1..MaxLines : markLine(editor.lines[l]) # editor.lines[l]

Quiescent == NoCallbackPending /\ ~wouldWrite

\* C38: quiescence. Once the host makes no further mutation and no
\* configuration change arrives, the chain of observer callbacks that the
\* engine's own writes cause ends: the system reaches, and stays in, a state
\* in which no callback is pending and a further callback would write nothing.
C38_Quiescence == <>[]Quiescent

====
